---- MODULE Spec2Model ----
(***************************************************************************)
(* Model of the claude-code-zed hybrid protocol server.                    *)
(*                                                                         *)
(* The repository holds two implementations of the WebSocket endpoint:     *)
(*   - claude-code-server/src/websocket.rs  (JSON-RPC / MCP endpoint with  *)
(*     ServerState.auth_token, tool registry, keepalive), and              *)
(*   - claude-code-server/src/main.rs       (the binary's entry point with *)
(*     its own run_websocket_server, create_lock_file, run_hybrid_server). *)
(* websocket.rs exports run_websocket_server(port) with the signature      *)
(* main.rs calls, so the supervisor of main.rs is modelled over either     *)
(* endpoint; the variable impl says which one the process runs.            *)
(*                                                                         *)
(* Specifications:                                                         *)
(*   Spec      the WebSocket endpoint of websocket.rs serving one peer     *)
(*             (handshake, message loop, JSON-RPC routing of every frame); *)
(*   NetSpec   the same endpoint serving several peers at once, with the   *)
(*             editor endpoint of lsp.rs publishing notifications;         *)
(*   NetFair   NetSpec with the runtime's scheduling of connection tasks;  *)
(*   LifeSpec  the life cycle of the server process: startup, lock file,   *)
(*             shutdown task, accept loop, hybrid supervisor;              *)
(*   LifeFair  LifeSpec with the runtime's scheduling of the shutdown task;*)
(*   CliSpec   main's dispatch on the parsed command line;                 *)
(*   TextSpec  the editor endpoint of lsp.rs extracting the text of one    *)
(*             range or position from every document of Files;             *)
(*   EditorSpec the editor endpoint of lsp.rs or main.rs handling one      *)
(*             request: code action, selection range, command, other;      *)
(*   ActiveSpec Spec with a peer that sends a ping or a text frame between *)
(*             any two ticks of the keepalive task;                        *)
(*   SessionSpec the message loop of websocket.rs step by step: frames     *)
(*             queued by the peer, read, answered and sent one at a time;  *)
(*   PortSpec  the extension (claude-code-extension/src/lib.rs) choosing   *)
(*             the port of each server it starts.                          *)
(* Spec also runs the keepalive task of websocket.rs.                      *)
(***************************************************************************)
EXTENDS Integers, Sequences, FiniteSets, TLC

\* ---------------------------------------------------------------- bounds
MaxConns == 2
MaxId == 2

Conns == 1..MaxConns
Ids == 1..MaxId

\* ------------------------------------------------------ program constants
PARSE_ERROR == -32700
INVALID_PARAMS == -32602
METHOD_NOT_FOUND == -32601
TOOL_ERROR_INVALID_PARAMS == -32602
TOOL_ERROR_INTERNAL == -32603
TOOL_ERROR_NOT_FOUND == -32601

\* Option<Value>::None for a request or response id; no error object.
NoId == 0
NoError == 0
\* Option::None for `result`, for a tool name, for the auth token.
Null == "null"
NoName == "<none>"
NoToken == "<none>"

VARIABLES
    \* --- extension (claude-code-extension/src/lib.rs)
    PORT_COUNTER,   \* the AtomicU32, as two 16-bit halves
    issued,         \* the calls of generate_unique_port made, each with what it returned
    \* --- process life cycle
    cli,            \* Cli::parse(): the parsed command line
    worktree,       \* the worktree main passes to the mode function
    impl,           \* "module" (websocket.rs endpoint) or "main" (main.rs endpoint)
    mode,           \* the mode function main runs: "lsp", "websocket", "hybrid"; "unset" before
    wsPc,           \* position of run_websocket_server
    binds,          \* TcpListener::bind(&addr) calls made so far
    listener,       \* "unbound", "bound", "closed" (dropped)
    lock_dir,       \* ~/.claude/ide: the content of each <port>.lock, or NoFile
    auth_token,     \* ServerState.auth_token (NoToken before ServerState::new)
    sigTask,        \* position of the spawned shutdown task
    wsTask,         \* result of the WebSocket endpoint task
    lspTask,        \* "off", "running", "done"
    supervisor,     \* run_hybrid_server: "off", "running", "done"
    proc,           \* "running", "exited", "killed"
    exitCode,       \* "none", "0", "1", "SIGINT"
    signal,         \* the interactive-termination signal: "none", "delivered"
    cleanupResult,  \* Result of the shutdown task's cleanup_lock_file: "none", "ok", "err"
    \* --- WebSocket endpoint (websocket.rs)
    connPc,         \* per connection: "none", "accepted", "open", "closed"
    hdr,            \* per connection: the handshake's x-claude-code-ide-authorization
    connections,    \* ServerState.connections: the ids in the table
    last,           \* the endpoint's last step: the frame handled and what was sent in answer
    last_pong,      \* per connection: keepalive ticks since ConnectionInfo.last_pong
    connections_to_remove,  \* ping_keepalive_task: the ids its scan marked, until its removal pass
    inbox,          \* per connection: the text frames the peer has sent, in order
    reads,          \* per connection: how many frames of inbox ws_receiver.next() has yielded
    response,       \* per connection: the response built and not yet sent (Option, as a sequence)
    outbox,         \* per connection: the responses sent to the peer, in order
    disk,           \* the file the peer's tool calls name exists
    \* --- notification bus (lsp.rs sender, no receiver in websocket.rs)
    notification_sender,  \* ClaudeCodeLanguageServer.notification_sender is Some
    owed,           \* per connection: a notification was published while it was open
    \* --- editor endpoint (lsp.rs)
    file,           \* the lines of the document on disk, as content.lines() yields them
    published,      \* the notifications the request passed to send_notification, in order
    lspReq,         \* the editor request handled, NoReq before
    lspResp         \* what the handler returned: "none" before, "ok", "method_not_found", "panic"

extVars == <<PORT_COUNTER, issued>>
lifeVars == <<extVars, cli, worktree, impl, mode, wsPc, binds, listener, lock_dir, auth_token, sigTask, wsTask,
              lspTask, supervisor, proc, exitCode, signal, cleanupResult>>
wireVars == <<inbox, reads, response, outbox>>
connVars == <<connPc, hdr, connections, last, last_pong, connections_to_remove, wireVars, disk>>
lspVars == <<file, published, lspReq, lspResp>>
busVars == <<notification_sender, owed, lspVars>>
vars == <<lifeVars, connVars, busVars>>

\* ------------------------------ extension, claude-code-extension/src/lib.rs
\* generate_unique_port: `10000 + ((counter * 7919) % 55536) as u16`
PortBase == 10000
PortPrime == 7919
PortSpan == 55536
\* 2^16: a u32 is held as two halves, value hi * Half + lo, so that u32
\* arithmetic can be done without leaving the checker's integers.
Half == 65536

U32(hi, lo) == [hi |-> hi, lo |-> lo]
\* AtomicU32::new(0)
Zero == U32(0, 0)
\* The extension has been loaded and has started no server.
Loaded == PORT_COUNTER = Zero /\ issued = <<>>

\* a + n on u32 for 0 <= n < Half, wrapping around as fetch_add does.
add_u32(a, n) ==
    LET lo == a.lo + n
    IN U32((a.hi + (lo \div Half)) % Half, lo % Half)

\* a * m on u32 for 0 <= m < 2^15: the low 32 bits of the product, and whether
\* the product has more (debug builds panic then, release builds go on with
\* the low bits).
mul_u32(a, m) ==
    LET low == a.lo * m
        high == a.hi * m + (low \div Half)
    IN [value |-> U32(high % Half, low % Half), overflow |-> high >= Half]

\* a % n on u32 for 0 < n <= Half
rem_u32(a, n) == ((a.hi % n) * (Half % n) + a.lo) % n

\* `as u16`: the low 16 bits
as_u16(n) == n % Half
\* a + b on u16
add_u16(a, b) == (a + b) % Half

\* `% 55536`
InHalf(product) == rem_u32(product, Half)
InSpan(product) == rem_u32(product, PortSpan)

\* generate_unique_port, from the counter value fetch_add returned: the port,
\* and whether counter * 7919 overflowed.
port_of(counter) ==
    LET product == mul_u32(counter, PortPrime)
    IN [port |-> add_u16(PortBase, as_u16(InSpan(product.value))),
        overflow |-> product.overflow]

\* The number of calls of generate_unique_port in a run.
MaxCalls == 3

\* Counter values the calls of a run start from: the first calls, the values
\* around the span, around the carry between the halves, around the largest
\* counter whose product fits in 32 bits (542362 = 8 * Half + 18074), and the
\* last values before the counter itself wraps.
CounterStarts ==
    {U32(hi, lo) : hi \in {0, 1, 8, Half - 1},
                   lo \in {0, 1, 18072, 18073, 18074, PortSpan - 2, PortSpan - 1, PortSpan,
                           Half - 3, Half - 2, Half - 1}}

\* language_server_command calls generate_unique_port: PORT_COUNTER.fetch_add(1),
\* then the port from the value the counter had. An overflowing product ends
\* the call by a panic or goes on with the wrapped value, as the build has it.
GenerateUniquePort ==
    /\ Len(issued) < MaxCalls
    /\ PORT_COUNTER' = add_u32(PORT_COUNTER, 1)
    /\ LET r == port_of(PORT_COUNTER)
       IN \E wraps \in (IF r.overflow THEN BOOLEAN ELSE {TRUE}) :
             issued' = Append(issued, [counter |-> PORT_COUNTER, overflow |-> r.overflow,
                                       panicked |-> ~wraps,
                                       port |-> IF wraps THEN r.port ELSE 0])
    /\ UNCHANGED <<cli, worktree, impl, mode, binds, wsPc, listener, lock_dir, auth_token, sigTask,
                   wsTask, lspTask, supervisor, proc, exitCode, signal, cleanupResult, connVars,
                   busVars>>

\* Numbers of calls made between two calls that a run follows: none is drawn
\* by leaving the action out; the others put the two calls at the distances
\* 1157, 27768, 45056, 55535 (the last two of 55536 consecutive calls) and 55536.
Strides == {1156, 27767, 45055, PortSpan - 2, PortSpan - 1}

\* n further calls of generate_unique_port whose ports the run does not
\* follow: each is one fetch_add(1) on the counter.
Intervening ==
    /\ issued # <<>> /\ Len(issued) < MaxCalls
    /\ PORT_COUNTER = add_u32(issued[Len(issued)].counter, 1)
    /\ \E n \in Strides : PORT_COUNTER' = add_u32(PORT_COUNTER, n)
    /\ UNCHANGED <<issued, cli, worktree, impl, mode, binds, wsPc, listener, lock_dir, auth_token,
                   sigTask, wsTask, lspTask, supervisor, proc, exitCode, signal, cleanupResult,
                   connVars, busVars>>

\* ---------------------------------------------------------- command line
NoPath == "<none>"
NoPort == "<none>"
\* Option<PathBuf> values of --worktree and Option<u16> values of --port
Paths == {NoPath, "/a", "/b"}
Ports == {NoPort, "4000", "4001"}

\* main.rs Cli and Mode as clap parses them: sub is the subcommand ("none"
\* when Cli.mode is None) with its own port and worktree, debug and worktree
\* are the top-level flags. A subcommand has only the fields its variant has.
Cli ==
    {c \in [sub : {"none", "lsp", "websocket", "hybrid"}, port : Ports,
            subWorktree : Paths, debug : BOOLEAN, worktree : Paths] :
        /\ c.sub \in {"none", "lsp"} => c.port = NoPort
        /\ c.sub \in {"none", "websocket"} => c.subWorktree = NoPath}
NoArgs == [sub |-> "none", port |-> NoPort, subWorktree |-> NoPath, debug |-> FALSE,
           worktree |-> NoPath]

\* Option::or: the receiver when it is Some, else the argument
or_arg(a, b) == IF b # NoPath THEN b ELSE a
or(a, b) == IF a # NoPath THEN a ELSE b

\* main.rs main: `match cli.mode`, the mode function called and its arguments
Dispatch(c) ==
    CASE c.sub = "lsp" ->
            [run |-> "lsp", port |-> NoPort, worktree |-> or(c.worktree, c.subWorktree)]
      [] c.sub = "websocket" ->
            [run |-> "websocket", port |-> c.port, worktree |-> NoPath]
      [] c.sub = "hybrid" ->
            [run |-> "hybrid", port |-> c.port, worktree |-> or(c.worktree, c.subWorktree)]
      [] OTHER ->
            IF c.worktree # NoPath
            THEN [run |-> "lsp", port |-> NoPort, worktree |-> c.worktree]
            ELSE [run |-> "hybrid", port |-> NoPort, worktree |-> c.worktree]

\* ------------------------------------------------------------ lock files
NoFile == [exists |-> FALSE, keys |-> {}, authToken |-> NoToken]

\* websocket.rs create_lock_file: the json! written to <port>.lock
ModuleLockData(token) ==
    [exists |-> TRUE,
     keys |-> {"processId", "workspaceFolders", "ideName", "authToken", "port", "timestamp"},
     authToken |-> token]

\* main.rs create_lock_file: the json! written to <port>.lock
MainLockData ==
    [exists |-> TRUE,
     keys |-> {"port", "pid", "timestamp"},
     authToken |-> NoToken]

\* The port the endpoint runs on (caller-supplied or assigned by the system),
\* and a port another server runs or ran on.
ServerPort == "4000"
OtherPort == "4001"
\* format!("{}.lock", port)
lock_file(p) == p \o ".lock"
LockFiles == {lock_file(ServerPort), lock_file(OtherPort)}
\* Contents the lock directory can have: another server's file is there or not.
EmptyDir == [f \in LockFiles |-> NoFile]
Dirs == [LockFiles -> {NoFile, MainLockData}]
\* tokio::fs::write(&lock_file, ..): creates or overwrites that one file
write(d, f, data) == [d EXCEPT ![f] = data]
\* tokio::fs::remove_file(&lock_file): removes that one file
remove_dir_all(d, f) == [g \in DOMAIN d |-> NoFile]
remove_file(d, f) == [d EXCEPT ![f] = NoFile]
\* <port>.lock of this process's port
lockFile == lock_dir[lock_file(ServerPort)]

\* generate_auth_token: 32 random alphanumeric characters; two tokens stand for
\* the values a run can draw.
Tokens == {"tokA", "tokB"}

\* ------------------------------------------------ documents and selections
\* Characters of a document: "e" stands for U+00E9 (2 bytes in UTF-8, 1 UTF-16
\* code unit), "G" for U+1F600 (4 bytes, 2 code units).
Chars == {"e", "G"}
len_utf8(ch) == IF ch = "G" THEN 4 ELSE 2
len_utf16(ch) == IF ch = "G" THEN 2 ELSE 1

\* A line is a sequence of characters. The lines of up to MaxLineLen characters.
MaxLineLen == 2
Lines == UNION {[1..n -> Chars] : n \in 0..MaxLineLen}
MiddleLines == {<<>>, <<"G">>}

\* The documents: three lines.
Files == {<<first, middle, third>> : first \in Lines, middle \in MiddleLines, third \in Lines}
BlankFile == <<<<>>, <<>>, <<>>>>

\* lsp_types Position and Range: line and character count from 0, character in
\* UTF-16 code units. Positions reach one line past the document and one code
\* unit past the longest line.
Positions == [line : 0..Len(BlankFile), character : 0..(MaxLineLen * len_utf16("G") + 1)]
Ranges == [start : Positions, end : Positions]

NoRange == [start |-> [line |-> 0, character |-> 0], end |-> [line |-> 0, character |-> 0]]
\* A notification passed to send_notification: SelectionChangedNotification
\* (selection, is_empty, text; readOk tells whether the file could be read) or
\* AtMentionedNotification (filePath, lineStart, lineEnd).
NoNote == [method |-> "none", selection |-> NoRange, is_empty |-> FALSE, text |-> <<>>,
           readOk |-> TRUE, filePath |-> "", lineStart |-> 0, lineEnd |-> 0]

\* The largest u32, for Position.character and the line numbers of at-mention.
\* The model's word is 8 bits wide (the checker's integers do not reach 2^32):
\* 255 stands for u32::MAX, and arithmetic on u32 is taken modulo 256.
U32Max == 255
\* Positions of selection_range requests: those of the document and the
\* largest character a client can send.
SelectionPositions == Positions \cup {[line |-> 0, character |-> U32Max]}

\* A serde_json::Value as the at-mention command reads it: a number (n), a
\* string (s), or a key that is absent.
JInt(n) == [t |-> "int", n |-> n, s |-> ""]
JStr(str) == [t |-> "str", n |-> 0, s |-> str]
JAbsent == [t |-> "absent", n |-> 0, s |-> ""]
\* Values of lineStart and lineEnd: absent, negative, a line number, a number
\* beyond u32, a string.
LineValues == {JAbsent, JInt(-1), JInt(7), JInt(U32Max + 8), JStr("7")}
PathValues == {JAbsent, JStr("/f.rs"), JInt(7)}
\* ExecuteCommandParams.arguments.first(): None, a value that is no object, or
\* an object with the three keys present or not.
Arguments ==
    [shape : {"none", "string"}, filePath : {JAbsent}, lineStart : {JAbsent},
     lineEnd : {JAbsent}]
    \cup [shape : {"object"}, filePath : PathValues, lineStart : LineValues,
          lineEnd : LineValues]
NoArgument == [shape |-> "none", filePath |-> JAbsent, lineStart |-> JAbsent,
               lineEnd |-> JAbsent]
Commands == {"claude-code.explain", "claude-code.improve", "claude-code.fix",
             "claude-code.at-mention", "claude-code.other"}

\* The receivers of the broadcast channel at the time of a send: none, one
\* that has read everything, one that has fallen behind.
Subscribers == {"none", "current", "lagging"}

\* An editor request with what the handler reads from its environment.
NoReq == [kind |-> "none", range |-> NoRange, positions |-> <<>>, command |-> "none",
          argument |-> NoArgument, subscribers |-> "none"]

\* ------------------------------------------------------- JSON-RPC frames
\* A text frame, by what serde makes of it: "garbage" is no JSON, "no_method"
\* is a JSON object with jsonrpc but no method, "request" has jsonrpc and
\* method. id is NoId when the field is absent. name is params.name (NoName
\* when params or name is absent or no string); hasArgs says params.arguments
\* is present and keys are the keys of that object.
NoText == [shape |-> "none", method |-> "-", id |-> NoId, name |-> NoName,
           hasArgs |-> FALSE, keys |-> {}]

RoutedMethods == {"initialize", "prompts/list", "tools/list", "tools/call",
                  "notifications/initialized", "selection_changed", "at_mentioned"}
\* Methods the endpoint of websocket.rs has no branch for.
OtherMethods == {"prompts/get", "logging/setLevel", "no.such.method"}
Methods == RoutedMethods \cup OtherMethods

\* tools.rs create_default_registry: the names registered.
RegisteredTools == {"openFile", "getCurrentSelection", "getOpenEditors",
                    "saveDocument", "getWorkspaceFolders"}

\* The twelve tool names the specification requires of every implementation.
StandardTools == {"openFile", "getCurrentSelection", "getLatestSelection", "getOpenEditors",
                  "getWorkspaceFolders", "openDiff", "closeAllDiffTabs", "close_tab",
                  "getDiagnostics", "checkDocumentDirty", "saveDocument", "executeCode"}

\* mcp.rs handle_tools_list: the names of the Tool values it lists.
MCPListedTools == StandardTools \cup {"echo", "get_workspace_info"}

\* mcp.rs handle_tools_call: the names `match tool_name` has an arm for.
MCPCalledTools == {"echo", "get_workspace_info", "closeAllDiffTabs", "openFile",
                   "getCurrentSelection", "getOpenEditors", "getWorkspaceFolders", "openDiff",
                   "getLatestSelection", "getDiagnostics", "checkDocumentDirty", "saveDocument",
                   "close_tab", "executeCode"}

\* ToolRegistry::get_tool_list: the schema of every registered handler.
get_tool_list_standard == StandardTools
get_tool_list == RegisteredTools

\* The tool names a peer puts in params.name.
ToolNames == {NoName, "no_such_tool"} \cup RegisteredTools \cup MCPListedTools

\* The text frames a peer sends in Spec.
PlainRequests ==
    [shape : {"request"}, method : Methods \ {"tools/call"}, id : {NoId} \cup Ids,
     name : {NoName}, hasArgs : {FALSE}, keys : {{}}]
ToolCallRequests ==
    {[shape |-> "request", method |-> "tools/call", id |-> i, name |-> n,
      hasArgs |-> a, keys |-> IF a THEN {"path"} ELSE {}] :
        i \in {NoId} \cup Ids,
        n \in ToolNames,
        a \in BOOLEAN}
UnparsableTexts ==
    {[NoText EXCEPT !.shape = "garbage"]} \cup
    {[NoText EXCEPT !.shape = "no_method", !.id = i] : i \in {NoId} \cup Ids}
TextFrames == PlainRequests \cup ToolCallRequests \cup UnparsableTexts

Response(id, result, error) == [id |-> id, result |-> result, error |-> error]

\* serde_json::from_str::<JsonRpcRequest>: jsonrpc and method are required.
ParseRequest(text) == text.shape = "request"

\* tools.rs handlers, by the shape of the value they return.
handle_open_file(keys, fsOk) ==
    IF "path" \notin keys THEN [ok |-> FALSE, result |-> Null, code |-> TOOL_ERROR_INVALID_PARAMS]
    ELSE IF fsOk THEN [ok |-> TRUE, result |-> "{path,content}", code |-> NoError]
    ELSE [ok |-> FALSE, result |-> Null, code |-> TOOL_ERROR_INTERNAL]

handle_save_document(keys, fsOk) ==
    IF "path" \notin keys \/ "content" \notin keys
    THEN [ok |-> FALSE, result |-> Null, code |-> TOOL_ERROR_INVALID_PARAMS]
    ELSE IF fsOk THEN [ok |-> TRUE, result |-> "{path,saved}", code |-> NoError]
    ELSE [ok |-> FALSE, result |-> Null, code |-> TOOL_ERROR_INTERNAL]

\* No frame has been sent in either direction.
NoTraffic ==
    /\ inbox = [c \in Conns |-> <<>>]
    /\ reads = [c \in Conns |-> 0]
    /\ response = [c \in Conns |-> <<>>]
    /\ outbox = [c \in Conns |-> <<>>]

\* ToolError::not_found(name), as the Err call_tool returns.
not_found_internal(name) == [ok |-> FALSE, result |-> Null, code |-> TOOL_ERROR_INTERNAL]
not_found(name) == [ok |-> FALSE, result |-> Null, code |-> TOOL_ERROR_NOT_FOUND]

\* ToolRegistry::call_tool: `self.tools.get(name).ok_or_else(not_found)?`, then
\* the handler is called with the arguments.
call_tool(name, keys, fsOk) ==
    IF name \notin RegisteredTools
    THEN not_found(name)
    ELSE CASE name = "openFile" -> handle_open_file(keys, fsOk)
           [] name = "saveDocument" -> handle_save_document(keys, fsOk)
           [] name = "getCurrentSelection" ->
                [ok |-> TRUE, result |-> "{selection,path,line,column}", code |-> NoError]
           [] name = "getOpenEditors" -> [ok |-> TRUE, result |-> "{editors}", code |-> NoError]
           [] name = "getWorkspaceFolders" -> [ok |-> TRUE, result |-> "{folders}", code |-> NoError]

\* handle_jsonrpc_request: `let id = request.id.clone()`
ResponseIdNone(req) == NoId
ResponseId(req) == req.id

\* handle_jsonrpc_request, "tools/call" branch: `let default_params = json!({})`,
\* the object without keys.
default_params == {}
\* params.arguments, or default_params when params or arguments is absent.
tool_params(req) == IF req.hasArgs THEN req.keys ELSE default_params

\* `match tool_name { Some(name) => .., None => .. }`: the registry is asked
\* only when params.name is a string.
HasToolNameAlways(req) == TRUE
HasToolName(req) == req.name # NoName

\* The handler invocations (handler.handler)(args) that one request causes: the
\* registered handler's name and the arguments it is given.
Invocations(req) ==
    IF req.method = "tools/call" /\ HasToolName(req) /\ req.name \in RegisteredTools
    THEN <<[handler |-> req.name, args |-> tool_params(req)]>>
    ELSE <<>>

\* handle_jsonrpc_request, "tools/call" branch
ToolsCall(req, fsOk) ==
    IF ~HasToolName(req)
    THEN <<Response(ResponseId(req), Null, INVALID_PARAMS)>>
    ELSE LET r == call_tool(req.name, tool_params(req), fsOk)
         IN IF r.ok THEN <<Response(ResponseId(req), r.result, NoError)>>
            ELSE <<Response(ResponseId(req), Null, r.code)>>

\* handle_jsonrpc_request, default branch `_ =>`
MethodNotFoundAlways(req) == <<Response(ResponseId(req), Null, METHOD_NOT_FOUND)>>
MethodNotFound(req) ==
    IF req.id # NoId THEN <<Response(ResponseId(req), Null, METHOD_NOT_FOUND)>> ELSE <<>>

\* handle_jsonrpc_request, the three notification branches: `None`, whatever
\* request.id is.
NotificationAnswered(req) ==
    IF req.id # NoId THEN <<Response(ResponseId(req), "{}", NoError)>> ELSE <<>>
Notification(req) == <<>>

\* handle_jsonrpc_request: Option<JsonRpcResponse> as a sequence of length 0 or 1
handle_jsonrpc_request(req, fsOk) ==
    CASE req.method = "initialize" -> <<Response(ResponseId(req), "{protocolVersion,capabilities,serverInfo}", NoError)>>
      [] req.method = "prompts/list" -> <<Response(ResponseId(req), "{prompts}", NoError)>>
      [] req.method = "tools/list" -> <<Response(ResponseId(req), "{tools}", NoError)>>
      [] req.method = "tools/call" -> ToolsCall(req, fsOk)
      [] req.method = "notifications/initialized" -> Notification(req)
      [] req.method = "selection_changed" -> Notification(req)
      [] req.method = "at_mentioned" -> Notification(req)
      [] OTHER -> MethodNotFound(req)

\* handle_connection, parse error branch: the JsonRpcResponse it builds
ParseErrorResponse == Response(NoId, Null, PARSE_ERROR)

\* mcp.rs MCPServer::handle_request: the MCPResponse it returns, as a sequence;
\* empty when a handler's `?` propagates an anyhow error (no params or name, unknown tool).
MCPMethods == {"initialize", "tools/list", "tools/call", "logging/setLevel",
               "prompts/list", "prompts/get"}
MCPHandleRequest(req) ==
    IF req.method \notin MCPMethods
    THEN <<Response(req.id, Null, METHOD_NOT_FOUND)>>
    ELSE IF req.method \in {"tools/call", "prompts/get"} /\ req.name = NoName
    THEN <<>>
    ELSE IF req.method = "tools/call"
    THEN IF req.name \in MCPCalledTools
         THEN <<Response(req.id, "{content,isError}", NoError)>>
         ELSE <<>>
    ELSE <<Response(req.id, "{result}", NoError)>>

\* src/lib.rs ClaudeCodeExtension::handle_websocket_message: Option<String> as
\* a sequence. JsonRpcMessage requires jsonrpc only; method is optional.
handle_websocket_message(text) ==
    IF text.shape = "garbage" THEN <<Response(NoId, Null, PARSE_ERROR)>>
    ELSE IF text.shape = "request" THEN <<Response(text.id, "{content}", NoError)>>
    ELSE <<>>

\* ------------------------------------------- WebSocket endpoint, websocket.rs
\* A step of the endpoint: the frame, the handler invocations it caused, the
\* response built for it and whether sending the response succeeded.
NoEvent == [conn |-> 1, kind |-> "none", text |-> NoText, calls |-> <<>>, resp |-> <<>>,
            sendOk |-> TRUE]
Event(c, kind, text, resp, sendOk) ==
    [conn |-> c, kind |-> kind, text |-> text,
     calls |-> IF kind = "text" /\ ParseRequest(text) THEN Invocations(text) ELSE <<>>,
     resp |-> resp, sendOk |-> sendOk]

Serving == proc = "running" /\ wsPc = "accepting" /\ listener = "bound"

\* run_websocket_server_with_worktree, accept loop: a TCP connection arrives and
\* its handler is spawned. h is the authorization header of the upgrade request
\* the peer sends.
Accept(c) ==
    /\ Serving
    /\ connPc[c] = "none"
    /\ \E h \in {"absent", "wrong", "correct"} :
          hdr' = [hdr EXCEPT ![c] = h]
    /\ connPc' = [connPc EXCEPT ![c] = "accepted"]
    /\ UNCHANGED <<lifeVars, wireVars, disk, connections, last, last_pong, connections_to_remove, busVars>>

\* accept_async_with_context: try_read takes the bytes that have arrived off the
\* stream before tungstenite's accept_async reads the upgrade request, so the
\* upgrade succeeds when the request is well formed and had not arrived yet.
\* No header of the request is compared with ServerState.auth_token.
HandshakeAccepts(h, wellFormed, arrived) == wellFormed /\ ~arrived

\* handle_connection up to the message loop: handshake, then insert the record.
Handshake(c) ==
    /\ proc = "running"
    /\ connPc[c] = "accepted"
    /\ \E wellFormed \in BOOLEAN, arrived \in BOOLEAN :
          IF HandshakeAccepts(hdr[c], wellFormed, arrived)
          THEN /\ connPc' = [connPc EXCEPT ![c] = "open"]
               /\ connections' = connections \cup {c}
               /\ last_pong' = [last_pong EXCEPT ![c] = 0]
               /\ hdr' = hdr
          ELSE /\ connPc' = [connPc EXCEPT ![c] = "closed"]
               /\ connections' = connections
               /\ last_pong' = last_pong
               /\ hdr' = [hdr EXCEPT ![c] = "absent"]
    /\ UNCHANGED <<lifeVars, wireVars, disk, last, connections_to_remove, busVars>>

\* connections.remove(&connection_id): that one record leaves the table
remove_all(table, c) == {}
remove(table, c) == table \ {c}

\* handle_connection after the loop: remove the record, the handler returns.
Cleanup(c) ==
    /\ connPc' = [connPc EXCEPT ![c] = "closed"]
    /\ connections' = remove(connections, c)
    /\ last_pong' = [last_pong EXCEPT ![c] = 0]
    /\ hdr' = [hdr EXCEPT ![c] = "absent"]
    /\ owed' = [owed EXCEPT ![c] = FALSE]
    /\ UNCHANGED <<notification_sender, lspVars>>

StayOpen == UNCHANGED <<connPc, connections, hdr, last_pong, busVars>>

\* handle_connection, `serde_json::to_string(&resp)?`: on Err the handler
\* returns from inside the loop, so the code after the loop does not run and
\* the record stays in the table.
ReturnErr(c) ==
    /\ connPc' = [connPc EXCEPT ![c] = "closed"]
    /\ hdr' = [hdr EXCEPT ![c] = "absent"]
    /\ owed' = [owed EXCEPT ![c] = FALSE]
    /\ UNCHANGED <<connections, last_pong, notification_sender, lspVars>>

\* Outcomes (Ok) of serde_json::to_string(&resp) for a JsonRpcResponse: its
\* fields are strings, integers and serde_json::Value, whose maps have string
\* keys and whose numbers are finite, and writing to a String cannot fail, so
\* the serializer has no error to return.
SerOutcomes == {TRUE}

\* handle_connection, Message::Text: the loop breaks when sending the response
\* to a parsed request fails; the result of sending the parse error response is
\* dropped (`let _ =`).
ExitsLoopOnAnySendError(parsed, resp, sendOk) == resp # <<>> /\ ~sendOk
ExitsLoop(parsed, resp, sendOk) == parsed /\ resp # <<>> /\ ~sendOk

\* Results (Ok) of the std::fs call a tool handler makes: read_to_string fails
\* on a file that is not there and can fail on one that is; write can fail.
FsOutcomes(text, exists) ==
    IF text.method = "tools/call" /\ text.name = "openFile"
    THEN (IF exists THEN BOOLEAN ELSE {FALSE})
    ELSE IF text.method = "tools/call" /\ text.name = "saveDocument"
    THEN BOOLEAN
    ELSE {TRUE}

\* handle_save_document got as far as std::fs::write(path, content) and it
\* returned Ok: the file exists from then on.
Written(text, fsOk) ==
    /\ ParseRequest(text) /\ Invocations(text) # <<>>
    /\ text.name = "saveDocument" /\ {"path", "content"} \subseteq tool_params(text)
    /\ fsOk

HandleText(c, texts) ==
    /\ proc = "running"
    /\ connPc[c] = "open"
    /\ \E text \in texts : \E fsOk \in FsOutcomes(text, disk) :
          LET parsed == ParseRequest(text)
              resp == IF parsed THEN handle_jsonrpc_request(text, fsOk)
                      ELSE <<ParseErrorResponse>>
          IN /\ disk' = (disk \/ Written(text, fsOk))
             /\ \E serOk \in (IF parsed /\ resp # <<>> THEN SerOutcomes ELSE {TRUE}) :
                \E sendOk \in (IF resp = <<>> THEN {TRUE} ELSE BOOLEAN) :
                   IF serOk
                   THEN /\ last' = Event(c, "text", text, resp, sendOk)
                        /\ IF ExitsLoop(parsed, resp, sendOk) THEN Cleanup(c) ELSE StayOpen
                   ELSE /\ last' = Event(c, "text", text, <<>>, TRUE)
                        /\ ReturnErr(c)
    /\ UNCHANGED <<lifeVars, wireVars, connections_to_remove>>

\* handle_connection, Message::Close: break.
HandleClose(c) ==
    /\ proc = "running"
    /\ connPc[c] = "open"
    /\ last' = Event(c, "close", NoText, <<>>, TRUE)
    /\ Cleanup(c)
    /\ UNCHANGED <<lifeVars, wireVars, disk, connections_to_remove>>

\* handle_connection, Message::Ping: answer Pong, break when sending it fails.
HandlePing(c) ==
    /\ proc = "running"
    /\ connPc[c] = "open"
    /\ \E sendOk \in BOOLEAN :
          /\ last' = Event(c, "ping", NoText, <<>>, sendOk)
          /\ IF sendOk THEN StayOpen ELSE Cleanup(c)
    /\ UNCHANGED <<lifeVars, wireVars, disk, connections_to_remove>>

\* handle_connection, Message::Pong (last_pong of the record is set to now when
\* the record is still in the table), Message::Binary and Message::Frame:
\* nothing is sent, the loop goes on.
BinaryBreaks(k) == k = "binary"
IgnoredBreaks(k) == FALSE

HandleIgnored(c) ==
    /\ proc = "running"
    /\ connPc[c] = "open"
    /\ \E k \in {"pong", "binary"} :
          /\ last' = Event(c, k, NoText, <<>>, TRUE)
          /\ IF IgnoredBreaks(k)
             THEN Cleanup(c)
             ELSE /\ last_pong' = IF k = "pong" /\ c \in connections
                                  THEN [last_pong EXCEPT ![c] = 0] ELSE last_pong
                  /\ UNCHANGED <<connPc, connections, hdr, busVars>>
    /\ UNCHANGED <<lifeVars, wireVars, disk, connections_to_remove>>

\* handle_connection, Err(e) from the stream, or the stream ends: break.
HandleReadError(c) ==
    /\ proc = "running"
    /\ connPc[c] = "open"
    /\ \E k \in {"error", "eof"} : last' = Event(c, k, NoText, <<>>, TRUE)
    /\ Cleanup(c)
    /\ UNCHANGED <<lifeVars, wireVars, disk, connections_to_remove>>

\* ping_keepalive_task: a record is dead when its last_pong is more than
\* timeout_duration (60 s) old; the interval is 30 s, so that is the case at the
\* first tick after more than TimeoutTicks ticks have passed.
TimeoutTicks == 2
IsDead(age) == age > TimeoutTicks

\* ping_keepalive_task, interval.tick() and the scan under connections.read():
\* collect the records whose last_pong is too old. No Ping is sent. The read
\* lock is released at the end of the scan.
KeepaliveTick ==
    /\ Serving
    /\ impl = "module"
    /\ connections_to_remove = {}
    /\ LET aged == [c \in Conns |-> IF c \in connections THEN last_pong[c] + 1 ELSE 0]
       IN /\ connections_to_remove' = {c \in connections : IsDead(aged[c])}
          /\ last_pong' = aged
    /\ last' = [NoEvent EXCEPT !.kind = "tick"]
    /\ UNCHANGED <<lifeVars, wireVars, disk, connPc, hdr, connections, busVars>>

\* ping_keepalive_task, `if !connections_to_remove.is_empty()`: under
\* connections.write() every marked id is removed from the table; last_pong is
\* not read again. The connection's socket and handler task are not touched.
KeepaliveRemove ==
    /\ proc = "running"
    /\ connections_to_remove # {}
    /\ LET removed == connections_to_remove \cap connections
       IN /\ connections' = connections \ removed
          /\ last_pong' = [c \in Conns |-> IF c \in removed THEN 0 ELSE last_pong[c]]
    /\ connections_to_remove' = {}
    /\ last' = [NoEvent EXCEPT !.kind = "tick"]
    /\ UNCHANGED <<lifeVars, wireVars, disk, connPc, hdr, busVars>>

\* lsp.rs send_notification (from code_action, selection_range and the
\* at-mention command): broadcast::Sender::send when a sender is set. No
\* connection task of websocket.rs holds a receiver, so nothing is queued for
\* any connection; owed records who was connected at that moment.
LspPublish ==
    /\ proc = "running"
    /\ lspTask = "running"
    /\ notification_sender
    /\ owed' = [c \in Conns |-> owed[c] \/ connPc[c] = "open"]
    /\ UNCHANGED <<lifeVars, connVars, notification_sender, lspVars>>

\* The process in hybrid mode after startup, whichever endpoint it is built on.
ServingState ==
    /\ cli = NoArgs
    /\ worktree = NoPath
    /\ mode = "hybrid"
    /\ wsPc = "accepting"
    /\ binds = 1
    /\ listener = "bound"
    /\ sigTask = "listening"
    /\ wsTask = "running"
    /\ lspTask = "running"
    /\ supervisor = "running"
    /\ proc = "running"
    /\ exitCode = "none"
    /\ signal = "none"
    /\ cleanupResult = "none"
    /\ connPc = [c \in Conns |-> "none"]
    /\ hdr = [c \in Conns |-> "absent"]
    /\ connections = {}
    /\ last = NoEvent
    /\ last_pong = [c \in Conns |-> 0]
    /\ connections_to_remove = {}
    /\ NoTraffic
    /\ owed = [c \in Conns |-> FALSE]

\* The server of websocket.rs after startup: listener bound, lock file written,
\* shutdown task waiting; hybrid mode, the editor endpoint of lsp.rs running
\* with or without a notification sender.
Started ==
    /\ impl = "module"
    /\ auth_token = "tokA"
    /\ lock_dir = write(EmptyDir, lock_file(ServerPort), ModuleLockData(auth_token))
    /\ notification_sender \in BOOLEAN
    /\ ServingState

\* No editor request has been handled.
NoRequest == published = <<>> /\ lspReq = NoReq /\ lspResp = "none"

\* The file the peer's tool calls name exists (a file that is missing answers
\* openFile as a failed read does).
Init == Started /\ file = BlankFile /\ NoRequest /\ disk = TRUE /\ Loaded

\* The endpoint serving the peers cs, which send text frames out of texts.
Serve(cs, texts) ==
    \/ \E c \in cs : Accept(c)
    \/ \E c \in cs : Handshake(c)
    \/ \E c \in cs : HandleText(c, texts)
    \/ \E c \in cs : HandleClose(c)
    \/ \E c \in cs : HandlePing(c)
    \/ \E c \in cs : HandleIgnored(c)
    \/ \E c \in cs : HandleReadError(c)
    \/ LspPublish

\* ---- one connection, frame by frame: the peer sends ahead, the handler reads
\* ---- one frame, builds the response, sends it, and only then reads again.
MaxFrames == 3

\* The text frames of a session: the handshake messages, the tool list, and a
\* file that is saved and opened.
SessionTexts ==
    {[NoText EXCEPT !.shape = "request", !.method = "initialize", !.id = 1]} \cup
    {[NoText EXCEPT !.shape = "request", !.method = "notifications/initialized"]} \cup
    {[NoText EXCEPT !.shape = "request", !.method = "tools/list", !.id = i] : i \in Ids} \cup
    {[NoText EXCEPT !.shape = "request", !.method = "tools/call", !.id = i,
                    !.name = "openFile", !.hasArgs = TRUE, !.keys = {"path"}] : i \in Ids} \cup
    {[NoText EXCEPT !.shape = "request", !.method = "tools/call", !.id = 1,
                    !.name = "saveDocument", !.hasArgs = TRUE, !.keys = {"path", "content"}]}

\* The peer writes a text frame to the socket; it does not wait for the answer
\* to its earlier frames.
PeerSends(c, texts) ==
    /\ proc = "running"
    /\ connPc[c] \in {"open", "sending"}
    /\ Len(inbox[c]) < MaxFrames
    /\ \E text \in texts : inbox' = [inbox EXCEPT ![c] = Append(@, text)]
    /\ UNCHANGED <<lifeVars, connPc, hdr, connections, last, last_pong, connections_to_remove,
                   reads, response, outbox, disk, busVars>>

\* handle_connection, Message::Text: what the frame is answered with, a parsed
\* request by handle_jsonrpc_request and any other text by the parse error.
Answer(text, fsOk) ==
    IF ParseRequest(text) THEN handle_jsonrpc_request(text, fsOk) ELSE <<ParseErrorResponse>>

\* Requiring `initialize` first: what a session-aware endpoint would answer.
AnswerOnceInitialized(text, fsOk) ==
    IF \E c \in Conns : \E k \in 1..reads[c] : inbox[c][k].method = "initialize"
    THEN Answer(text, fsOk)
    ELSE <<Response(text.id, Null, INVALID_PARAMS)>>
AnswerOf(text, fsOk) == Answer(text, fsOk)

\* handle_connection, one iteration up to the send: ws_receiver.next() yields the
\* next frame the peer sent and the response to it is built.
ReadText(c) ==
    /\ proc = "running"
    /\ connPc[c] = "open"
    /\ reads[c] < Len(inbox[c])
    /\ reads' = [reads EXCEPT ![c] = @ + 1]
    /\ LET text == inbox[c][reads[c] + 1]
       IN \E fsOk \in FsOutcomes(text, disk) :
             LET resp == AnswerOf(text, fsOk)
             IN /\ disk' = (disk \/ Written(text, fsOk))
                /\ response' = [response EXCEPT ![c] = resp]
                /\ IF resp = <<>>
                   THEN /\ last' = Event(c, "text", text, resp, TRUE)
                        /\ connPc' = connPc
                   ELSE /\ last' = last
                        /\ connPc' = [connPc EXCEPT ![c] = "sending"]
    /\ UNCHANGED <<lifeVars, hdr, connections, last_pong, connections_to_remove, inbox, outbox,
                   busVars>>

\* ws_sender.send(Message::Text(..)): the frame goes out behind those sent before.
SentFirst(out, frame) == <<frame>> \o out
Sent(out, frame) == Append(out, frame)

\* handle_connection, the rest of the iteration: the response is serialized and
\* sent; seq tells which frame of inbox it answers. The loop reads again after
\* the send, or breaks when sending the response to a parsed request failed.
SendText(c) ==
    /\ proc = "running"
    /\ connPc[c] = "sending"
    /\ LET text == inbox[c][reads[c]]
           resp == response[c]
       IN \E sendOk \in BOOLEAN :
             /\ last' = Event(c, "text", text, resp, sendOk)
             /\ outbox' = IF sendOk
                          THEN [outbox EXCEPT ![c] = Sent(@, [seq |-> reads[c], resp |-> resp[1]])]
                          ELSE outbox
             /\ response' = [response EXCEPT ![c] = <<>>]
             /\ IF ExitsLoop(ParseRequest(text), resp, sendOk)
                THEN Cleanup(c)
                ELSE /\ connPc' = [connPc EXCEPT ![c] = "open"]
                     /\ UNCHANGED <<connections, hdr, last_pong, busVars>>
    /\ UNCHANGED <<lifeVars, connections_to_remove, inbox, reads, disk>>

\* The file the session's tool calls name does not exist when the session
\* starts.
SessionInit == Started /\ file = BlankFile /\ NoRequest /\ disk = FALSE /\ Loaded
SessionNext ==
    \/ Accept(1)
    \/ Handshake(1)
    \/ PeerSends(1, SessionTexts)
    \/ ReadText(1)
    \/ SendText(1)
SessionSpec == SessionInit /\ [][SessionNext]_vars

\* The extension after any number of earlier calls.
PortInit ==
    /\ Started /\ file = BlankFile /\ NoRequest /\ disk = TRUE
    /\ PORT_COUNTER \in CounterStarts /\ issued = <<>>

PortNext == GenerateUniquePort \/ Intervening

PortSpec == PortInit /\ [][PortNext]_vars

\* One peer, every text frame of TextFrames, and the keepalive task.
Next == Serve({1}, TextFrames) \/ KeepaliveTick \/ KeepaliveRemove
Spec == Init /\ [][Next]_vars

\* Every peer of Conns at once, a few text frames: a request that is answered,
\* a notification, an unparsable text; within one keepalive timeout.
NetTexts ==
    {t \in TextFrames :
        \/ t.shape = "garbage"
        \/ t.shape = "request" /\ t.method \in {"tools/list", "at_mentioned"} /\ t.id \in {NoId, 1}}
NetNext == Serve(Conns, NetTexts)
NetSpec == Init /\ [][NetNext]_vars

\* The runtime polls a spawned connection task: an accepted connection's
\* handshake is carried out. Frames arrive when the peer sends them.
NetFair == NetSpec /\ \A c \in Conns : WF_vars(Handshake(c))

\* ---- a peer that is never silent: between any two keepalive ticks the peer
\* ---- of connection 1 sends a Ping or a text frame, so the tick finds a frame
\* ---- handled since the tick before (the interval is 30 s).
ActiveTick ==
    /\ last.kind \in {"ping", "text"}
    /\ KeepaliveTick

ActiveNext ==
    \/ Accept(1)
    \/ Handshake(1)
    \/ HandlePing(1)
    \/ HandleText(1, NetTexts)
    \/ ActiveTick
    \/ KeepaliveRemove
ActiveSpec == Init /\ [][ActiveNext]_vars

\* ------------------------------------------------ editor endpoint, lsp.rs
\* A string as Rust holds it: the UTF-8 bytes of its characters, <<ch, k>> being
\* byte k of character ch.
RECURSIVE Bytes(_)
Bytes(line) ==
    IF line = <<>> THEN <<>>
    ELSE [k \in 1..len_utf8(Head(line)) |-> <<Head(line), k>>] \o Bytes(Tail(line))

NewLine == <<<<"\n", 1>>>>

\* char_pos_to_byte_pos returns None
NoPos == -1

\* char_pos_to_byte_pos, the loop over line.char_indices(): i is the index of the
\* character looked at, byte_pos its byte offset.
\* char_pos_to_byte_pos, a target within the UTF-16 span of a character:
\* `return Some(byte_pos)`, the byte position of that character.
WithinSpanHalfway(byte_pos, ch) == byte_pos + (len_utf8(ch) \div 2)
WithinSpan(byte_pos, ch) == byte_pos

RECURSIVE CharIndices(_, _, _, _, _)
CharIndices(line, utf16_pos, i, byte_pos, current_utf16_pos) ==
    IF i > Len(line)
    THEN IF current_utf16_pos = utf16_pos THEN byte_pos ELSE NoPos
    ELSE IF current_utf16_pos = utf16_pos THEN byte_pos
    ELSE IF utf16_pos < current_utf16_pos + len_utf16(line[i]) THEN WithinSpan(byte_pos, line[i])
    ELSE CharIndices(line, utf16_pos, i + 1, byte_pos + len_utf8(line[i]),
                     current_utf16_pos + len_utf16(line[i]))

\* char_pos_to_byte_pos, counting characters instead of UTF-16 code units
RECURSIVE CountChars(_, _, _, _)
CountChars(line, pos, i, byte_pos) ==
    IF i > Len(line) THEN (IF i - 1 = pos THEN byte_pos ELSE NoPos)
    ELSE IF i - 1 = pos THEN byte_pos
    ELSE CountChars(line, pos, i + 1, byte_pos + len_utf8(line[i]))
char_pos_to_byte_pos_chars(line, utf16_pos) == CountChars(line, utf16_pos, 1, 0)

char_pos_to_byte_pos(line, utf16_pos) == CharIndices(line, utf16_pos, 1, 0, 0)

\* lines.get(index)
HasLine(lines, index) == index + 1 \in DOMAIN lines

\* &line[start_byte..end_byte]
ByteSlice(line, start_byte, end_byte) == SubSeq(Bytes(line), start_byte + 1, end_byte)

\* read_text_from_range, single line selection
SingleLine(lines, range) ==
    IF ~HasLine(lines, range.start.line) THEN <<>>
    ELSE LET line == lines[range.start.line + 1]
             start_byte == char_pos_to_byte_pos(line, range.start.character)
             end_byte == char_pos_to_byte_pos(line, range.end.character)
         IN IF start_byte # NoPos /\ end_byte # NoPos /\ start_byte <= end_byte
            THEN ByteSlice(line, start_byte, end_byte)
            ELSE <<>>

\* read_text_from_range, multi-line selection: what the last line contributes
LastLineWhole(line, end_char) == Bytes(line)
LastLinePart(line, end_char) ==
    LET end_byte == char_pos_to_byte_pos(line, end_char)
    IN IF end_byte # NoPos THEN ByteSlice(line, 0, end_byte) ELSE <<>>

\* read_text_from_range, multi-line selection: the body of the loop over
\* range.start.line..=range.end.line for line_index, then the rest of the loop.
RECURSIVE MultiLine(_, _, _)
MultiLine(lines, range, line_index) ==
    IF line_index > range.end.line THEN <<>>
    ELSE (IF ~HasLine(lines, line_index) THEN <<>>
          ELSE LET line == lines[line_index + 1]
                   piece ==
                     IF line_index = range.start.line
                     THEN LET start_byte == char_pos_to_byte_pos(line, range.start.character)
                          IN IF start_byte # NoPos
                             THEN ByteSlice(line, start_byte, Len(Bytes(line))) ELSE <<>>
                     ELSE IF line_index = range.end.line
                     THEN LastLinePart(line, range.end.character)
                     ELSE Bytes(line)
               IN piece \o (IF line_index < range.end.line THEN NewLine ELSE <<>>))
         \o MultiLine(lines, range, line_index + 1)

\* read_text_from_range: readOk is the outcome of fs::read_to_string.
read_text_from_range(lines, readOk, range) ==
    IF ~readOk THEN <<>>
    ELSE IF range.start.line = range.end.line THEN SingleLine(lines, range)
    ELSE MultiLine(lines, range, range.start.line)

\* The notification the editor endpoint built last.
note == IF published = <<>> THEN NoNote ELSE published[Len(published)]

\* send_notification: sender.send(notification) when a sender is set; its Err
\* (no receiver) is logged. The function returns () in every case, and
\* broadcast::Sender::send does not wait for a receiver.
SendPropagates(sender, subscribers) ==
    IF sender /\ subscribers = "none" THEN "error" ELSE "ok"
SendReturns(sender, subscribers) == "ok"

\* One request is followed per behaviour: every request is handled from the
\* file as it is on disk and leaves nothing behind in the endpoint.
Idle == proc = "running" /\ lspTask = "running" /\ lspReq = NoReq

\* The end of a handler of the LanguageServer trait: the notes went through
\* send_notification in this order, resp is returned to the editor.
Handled(req, notes, resp) ==
    /\ lspReq' = req
    /\ published' = published \o notes
    /\ lspResp' = IF resp = "ok" /\ notes # <<>>
                  THEN SendReturns(notification_sender, req.subscribers) ELSE resp
    /\ owed' = IF notification_sender /\ notes # <<>>
               THEN [c \in Conns |-> owed[c] \/ connPc[c] = "open"] ELSE owed
    /\ UNCHANGED <<lifeVars, connVars, notification_sender, file>>

\* The SelectionChangedNotification for a range
SelectionChanged(range, is_empty, readOk) ==
    [NoNote EXCEPT !.method = "selection_changed", !.selection = range,
                   !.is_empty = is_empty,
                   !.text = read_text_from_range(file, readOk, range), !.readOk = readOk]

\* code_action: lsp.rs sends the notification for params.range and returns the
\* action; main.rs only returns the action.
CodeAction(ranges, subs) ==
    /\ Idle
    /\ \E range \in ranges, readOk \in BOOLEAN, sub \in subs :
          Handled([NoReq EXCEPT !.kind = "code_action", !.range = range, !.subscribers = sub],
                  IF impl = "module"
                  THEN <<SelectionChanged(range, range.start = range.end, readOk)>>
                  ELSE <<>>,
                  "ok")

\* position.character + 1 on u32: past u32::MAX the addition wraps around in
\* a release build and panics in a debug build.
Overflows(position) == position.character = U32Max
EndOf(position) ==
    [position EXCEPT !.character = (position.character + 1) % (U32Max + 1)]

\* selection_range, the loop over params.positions: for each position the
\* range is the position and the position one code unit to its right,
\* is_empty is true. The loop ends where the addition panics.
RECURSIVE SelectionNotes(_, _, _)
SelectionNotes(positions, readOk, wraps) ==
    IF positions = <<>> \/ (Overflows(Head(positions)) /\ ~wraps) THEN <<>>
    ELSE LET position == Head(positions)
             selection_range == [start |-> position, end |-> EndOf(position)]
         IN <<SelectionChanged(selection_range, TRUE, readOk)>>
               \o SelectionNotes(Tail(positions), readOk, wraps)

\* selection_range of lsp.rs; main.rs has no selection_range, so tower-lsp's
\* default answers the request with method not found.
SelectionRange(positionLists, subs) ==
    /\ Idle
    /\ \E positions \in positionLists, readOk \in BOOLEAN, sub \in subs :
       \E wraps \in (IF \E i \in DOMAIN positions : Overflows(positions[i])
                     THEN BOOLEAN ELSE {TRUE}) :
          LET req == [NoReq EXCEPT !.kind = "selection_range", !.positions = positions,
                                   !.subscribers = sub]
          IN IF impl = "module"
             THEN Handled(req, SelectionNotes(positions, readOk, wraps),
                          IF wraps THEN "ok" ELSE "panic")
             ELSE Handled(req, <<>>, "method_not_found")

\* execute_command, "claude-code.at-mention": and_then(as_str).unwrap_or(""),
\* and_then(as_u64).unwrap_or(0) as u32
as_str_or_empty(v) == IF v.t = "str" THEN v.s ELSE ""
as_u64_as_u32_exact(v) == IF v.t = "int" THEN v.n ELSE 0
as_u64_as_u32(v) == IF v.t = "int" /\ v.n >= 0 THEN v.n % (U32Max + 1) ELSE 0

\* The AtMentionedNotification for the first argument: serde_json::from_value
\* to a Value succeeds for every value, and get() on a value that is no
\* object yields None.
AtMentioned(argument) ==
    [NoNote EXCEPT !.method = "at_mentioned",
                   !.filePath = as_str_or_empty(argument.filePath),
                   !.lineStart = as_u64_as_u32(argument.lineStart),
                   !.lineEnd = as_u64_as_u32(argument.lineEnd)]

\* execute_command: lsp.rs sends at_mentioned for the at-mention command when
\* there is a first argument; main.rs has no such arm. Every arm returns
\* Ok(None).
ExecuteCommand(commands, arguments, subs) ==
    /\ Idle
    /\ \E command \in commands, argument \in arguments, sub \in subs :
          Handled([NoReq EXCEPT !.kind = "execute_command", !.command = command,
                                !.argument = argument, !.subscribers = sub],
                  IF impl = "module" /\ command = "claude-code.at-mention"
                     /\ argument.shape # "none"
                  THEN <<AtMentioned(argument)>> ELSE <<>>,
                  "ok")

\* initialize, initialized, shutdown, did_open, did_change, did_save,
\* did_close, hover, completion: none calls send_notification.
OtherKinds == {"initialize", "initialized", "shutdown", "did_open", "did_change",
               "did_save", "did_close", "hover", "completion"}
OtherRequest ==
    /\ Idle
    /\ \E kind \in OtherKinds : Handled([NoReq EXCEPT !.kind = kind], <<>>, "ok")

\* The editor endpoint of lsp.rs with a notification sender, a document on
\* disk, and requests about one range or one position.
TextInit == Started /\ notification_sender /\ file \in Files /\ NoRequest /\ disk = TRUE /\ Loaded
TextNext ==
    \/ CodeAction(Ranges, {"none"})
    \/ SelectionRange({<<position>> : position \in SelectionPositions}, {"none"})
TextSpec == TextInit /\ [][TextNext]_vars

\* A document and requests for the editor endpoint of either implementation:
\* ranges and positions on its first line.
EditorFile == << <<"e", "G">>, <<>>, <<"e">> >>
EditorPositions == {position \in SelectionPositions : position.line = 0}
EditorRanges == {range \in Ranges : range.start.line = 0 /\ range.end.line = 0}
MaxPositions == 2
PositionLists == UNION {[1..n -> EditorPositions] : n \in 0..MaxPositions}

\* The editor endpoint of lsp.rs, with or without a notification sender, or
\* of main.rs, which has none.
EditorInit ==
    /\ impl \in {"module", "main"}
    /\ auth_token = IF impl = "module" THEN "tokA" ELSE NoToken
    /\ lock_dir = write(EmptyDir, lock_file(ServerPort),
                        IF impl = "module" THEN ModuleLockData(auth_token) ELSE MainLockData)
    /\ notification_sender \in (IF impl = "module" THEN BOOLEAN ELSE {FALSE})
    /\ ServingState
    /\ file = EditorFile
    /\ NoRequest
    /\ disk = TRUE
    /\ Loaded

EditorNext ==
    \/ CodeAction(EditorRanges, Subscribers)
    \/ SelectionRange(PositionLists, Subscribers)
    \/ ExecuteCommand(Commands, Arguments, Subscribers)
    \/ OtherRequest
EditorSpec == EditorInit /\ [][EditorNext]_vars

\* --------------------------------------------------- process life cycle
\* std::process::exit, main returning, or the signal's default disposition:
\* the process ends and the operating system closes its sockets.
EndProcess(how, code) ==
    /\ proc' = how
    /\ exitCode' = code
    /\ listener' = IF listener = "bound" THEN "closed" ELSE listener

\* TcpListener::bind(&addr).await?: the startup's position after bind returned
\* an error, given the binds made before and the position the bind was made at
AfterBindErrorRetry(n, pc) == IF n = 0 THEN pc ELSE "failed"
AfterBindError(n, pc) == "failed"

\* websocket.rs run_websocket_server_with_worktree: TcpListener::bind, then
\* ServerState::new (generate_auth_token); `?` returns the bind error.
ModuleBind ==
    /\ proc = "running" /\ impl = "module" /\ wsPc = "start"
    /\ \E ok \in BOOLEAN :
          IF ok
          THEN /\ listener' = "bound"
               /\ auth_token' \in Tokens
               /\ wsPc' = "bound"
               /\ wsTask' = wsTask
          ELSE /\ wsPc' = AfterBindError(binds, wsPc)
               /\ wsTask' = IF wsPc' = "failed" THEN "err" ELSE wsTask
               /\ UNCHANGED <<listener, auth_token>>
    /\ binds' = binds + 1
    /\ UNCHANGED <<extVars, cli, worktree, impl, mode, lock_dir, sigTask, lspTask, supervisor, proc, exitCode,
                   signal, cleanupResult, connVars, busVars>>

\* websocket.rs run_websocket_server_with_worktree: create_lock_file(port,
\* &server_state), then the shutdown task is spawned and the accept loop
\* starts; `?` returns the write error and drops the listener.
ModuleCreateLockFile ==
    /\ proc = "running" /\ impl = "module" /\ wsPc = "bound"
    /\ \E ok \in BOOLEAN :
          IF ok
          THEN /\ lock_dir' = write(lock_dir, lock_file(ServerPort), ModuleLockData(auth_token))
               /\ sigTask' = "spawned"
               /\ wsPc' = "accepting"
               /\ UNCHANGED <<listener, wsTask>>
          ELSE /\ wsPc' = "failed"
               /\ wsTask' = "err"
               /\ listener' = "closed"
               /\ UNCHANGED <<lock_dir, sigTask>>
    /\ UNCHANGED <<extVars, cli, worktree, impl, mode, binds, auth_token, lspTask, supervisor, proc, exitCode,
                   signal, cleanupResult, connVars, busVars>>

\* main.rs run_websocket_server: create_lock_file(port) comes first.
MainCreateLockFile ==
    /\ proc = "running" /\ impl = "main" /\ wsPc = "start"
    /\ \E ok \in BOOLEAN :
          IF ok
          THEN /\ lock_dir' = write(lock_dir, lock_file(ServerPort), MainLockData)
               /\ wsPc' = "locked"
               /\ wsTask' = wsTask
          ELSE /\ wsPc' = "failed"
               /\ wsTask' = "err"
               /\ lock_dir' = lock_dir
    /\ UNCHANGED <<extVars, cli, worktree, impl, mode, binds, listener, auth_token, sigTask, lspTask, supervisor, proc,
                   exitCode, signal, cleanupResult, connVars, busVars>>

\* main.rs run_websocket_server: TcpListener::bind after the lock file, then
\* ServerState::new() (no token), the shutdown task and the accept loop; `?`
\* returns the bind error.
MainBind ==
    /\ proc = "running" /\ impl = "main" /\ wsPc = "locked"
    /\ \E ok \in BOOLEAN :
          IF ok
          THEN /\ listener' = "bound"
               /\ sigTask' = "spawned"
               /\ wsPc' = "accepting"
               /\ wsTask' = wsTask
          ELSE /\ wsPc' = AfterBindError(binds, wsPc)
               /\ wsTask' = IF wsPc' = "failed" THEN "err" ELSE wsTask
               /\ UNCHANGED <<listener, sigTask>>
    /\ binds' = binds + 1
    /\ UNCHANGED <<extVars, cli, worktree, impl, mode, lock_dir, auth_token, lspTask, supervisor, proc, exitCode,
                   signal, cleanupResult, connVars, busVars>>

\* `while let Ok(..) = listener.accept().await` ends on an accept error: the
\* function returns Ok(()) and drops the listener.
AcceptLoopEnds ==
    /\ proc = "running" /\ wsPc = "accepting"
    /\ wsPc' = "done"
    /\ wsTask' = "ok"
    /\ listener' = "closed"
    /\ UNCHANGED <<extVars, cli, worktree, impl, mode, binds, lock_dir, auth_token, sigTask, lspTask, supervisor, proc,
                   exitCode, signal, cleanupResult, connVars, busVars>>

\* The shutdown task's first poll: signal::ctrl_c() registers the handler, or
\* fails and the task ends.
RegisterSignal ==
    /\ proc = "running" /\ sigTask = "spawned"
    /\ \E ok \in BOOLEAN : sigTask' = IF ok THEN "listening" ELSE "failed"
    /\ UNCHANGED <<extVars, cli, worktree, impl, mode, binds, wsPc, listener, lock_dir, auth_token, wsTask, lspTask,
                   supervisor, proc, exitCode, signal, cleanupResult, connVars, busVars>>

\* The interactive-termination signal arrives: ctrl_c() resolves in the
\* shutdown task; with no handler registered the default disposition ends
\* the process.
DeliverSignal ==
    /\ proc = "running" /\ signal = "none"
    /\ signal' = "delivered"
    /\ IF sigTask = "listening"
       THEN /\ sigTask' = "signalled"
            /\ UNCHANGED <<listener, proc, exitCode>>
       ELSE /\ EndProcess("killed", "SIGINT")
            /\ sigTask' = sigTask
    /\ UNCHANGED <<extVars, cli, worktree, impl, mode, binds, wsPc, lock_dir, auth_token, wsTask, lspTask, supervisor,
                   cleanupResult, connVars, busVars>>

\* cleanup_lock_file up to remove_file: `if lock_file.exists()`; a missing file
\* is Ok(()), and the shutdown task goes on to std::process::exit(0).
ShutdownBegin ==
    /\ proc = "running" /\ sigTask = "signalled"
    /\ IF lockFile.exists
       THEN /\ sigTask' = "removing"
            /\ UNCHANGED <<listener, proc, exitCode, cleanupResult>>
       ELSE /\ sigTask' = "exited"
            /\ cleanupResult' = "ok"
            /\ EndProcess("exited", "0")
    /\ UNCHANGED <<extVars, cli, worktree, impl, mode, binds, wsPc, lock_dir, auth_token, wsTask, lspTask, supervisor,
                   signal, connVars, busVars>>

\* remove_file: on Ok the lock file is gone; on Err the file stays
RemoveKeepsFile(ok) == FALSE
RemoveTakesFile(ok) == ok

\* Another process (a second server started on the same port, the extension, the
\* user) removes <port>.lock after cleanup_lock_file saw it exist and before
\* its remove_file runs.
LockFileVanishes ==
    /\ proc = "running" /\ sigTask = "removing"
    /\ lockFile.exists
    /\ lock_dir' = remove_file(lock_dir, lock_file(ServerPort))
    /\ UNCHANGED <<extVars, cli, worktree, impl, mode, binds, wsPc, listener, auth_token, sigTask, wsTask, lspTask,
                   supervisor, proc, exitCode, signal, cleanupResult, connVars, busVars>>

\* Results (Ok) of tokio::fs::remove_file(&lock_file): it fails with NotFound on
\* a file that is not there, and can fail on one that is (permissions, I/O).
RemoveOutcomes(d, f) == IF d[f].exists THEN BOOLEAN ELSE {FALSE}

\* cleanup_lock_file from remove_file on, then std::process::exit(0): a failed
\* removal is returned by `?`, logged by the shutdown task, and the process
\* exits all the same.
ShutdownRemove ==
    /\ proc = "running" /\ sigTask = "removing"
    /\ \E ok \in RemoveOutcomes(lock_dir, lock_file(ServerPort)) :
          /\ lock_dir' = IF RemoveTakesFile(ok)
                          THEN remove_file(lock_dir, lock_file(ServerPort))
                          ELSE lock_dir
          /\ cleanupResult' = IF ok THEN "ok" ELSE "err"
    /\ sigTask' = "exited"
    /\ EndProcess("exited", "0")
    /\ UNCHANGED <<extVars, cli, worktree, impl, mode, binds, wsPc, auth_token, wsTask, lspTask, supervisor, signal,
                   connVars, busVars>>

\* run_lsp_server: Server::serve returns when the editor closes stdin.
LspExit ==
    /\ proc = "running" /\ lspTask = "running"
    /\ lspTask' = "done"
    /\ UNCHANGED <<extVars, cli, worktree, impl, mode, binds, wsPc, listener, lock_dir, auth_token, sigTask, wsTask,
                   supervisor, proc, exitCode, signal, cleanupResult, connVars, busVars>>

\* run_hybrid_server: tokio::select! over the two join handles
SelectReadyAtOnce(ws, lsp) == TRUE
SelectReady(ws, lsp) == ws # "running" \/ lsp = "done"

\* run_hybrid_server: the select! arm that is ready runs, the function returns
\* Ok(()).
SupervisorSelect ==
    /\ proc = "running" /\ supervisor = "running"
    /\ SelectReady(wsTask, lspTask)
    /\ supervisor' = "done"
    /\ UNCHANGED <<extVars, cli, worktree, impl, mode, binds, wsPc, listener, lock_dir, auth_token, sigTask, wsTask,
                   lspTask, proc, exitCode, signal, cleanupResult, connVars, busVars>>

\* main: the awaited mode function returns and main returns its Result;
\* run_hybrid_server always returns Ok(()).
MainReturn ==
    /\ proc = "running"
    /\ \/ mode = "websocket" /\ wsTask # "running"
       \/ mode = "hybrid" /\ supervisor = "done"
    /\ EndProcess("exited", IF mode = "websocket" /\ wsTask = "err" THEN "1" ELSE "0")
    /\ UNCHANGED <<extVars, cli, worktree, impl, mode, binds, wsPc, lock_dir, auth_token, sigTask, wsTask, lspTask,
                   supervisor, signal, cleanupResult, connVars, busVars>>

\* Command lines without flags: no subcommand, `websocket`, `hybrid`
PlainArgs == {[NoArgs EXCEPT !.sub = m] : m \in {"none", "websocket", "hybrid"}}

\* The process after main's dispatch to run_websocket_server or
\* run_hybrid_server, built on either endpoint.
LifeInit ==
    /\ cli \in PlainArgs
    /\ worktree = Dispatch(cli).worktree
    /\ impl \in {"module", "main"}
    /\ mode = Dispatch(cli).run
    /\ wsPc = "start"
    /\ binds = 0
    /\ listener = "unbound"
    /\ auth_token = NoToken
    /\ lock_dir \in {d \in Dirs : ~d[lock_file(ServerPort)].exists}
    /\ sigTask = "none"
    /\ wsTask = "running"
    /\ lspTask = IF mode = "hybrid" THEN "running" ELSE "off"
    /\ supervisor = IF mode = "hybrid" THEN "running" ELSE "off"
    /\ proc = "running"
    /\ exitCode = "none"
    /\ signal = "none"
    /\ cleanupResult = "none"
    /\ connPc = [c \in Conns |-> "none"]
    /\ hdr = [c \in Conns |-> "absent"]
    /\ connections = {}
    /\ last = NoEvent
    /\ last_pong = [c \in Conns |-> 0]
    /\ connections_to_remove = {}
    /\ NoTraffic
    /\ disk = TRUE
    /\ Loaded
    /\ notification_sender = FALSE
    /\ owed = [c \in Conns |-> FALSE]
    /\ file = BlankFile
    /\ NoRequest

LifeNext ==
    \/ ModuleBind
    \/ ModuleCreateLockFile
    \/ MainCreateLockFile
    \/ MainBind
    \/ AcceptLoopEnds
    \/ RegisterSignal
    \/ DeliverSignal
    \/ ShutdownBegin
    \/ LockFileVanishes
    \/ ShutdownRemove
    \/ LspExit
    \/ SupervisorSelect
    \/ MainReturn

LifeSpec == LifeInit /\ [][LifeNext]_vars

\* main.rs main up to the call of the mode function: run_lsp_server starts
\* the editor endpoint, run_websocket_server the WebSocket endpoint,
\* run_hybrid_server spawns both and selects on them.
Main ==
    /\ proc = "running" /\ mode = "unset"
    /\ mode' = Dispatch(cli).run
    /\ worktree' = Dispatch(cli).worktree
    /\ wsPc' = IF mode' \in {"websocket", "hybrid"} THEN "start" ELSE "off"
    /\ wsTask' = IF mode' \in {"websocket", "hybrid"} THEN "running" ELSE "off"
    /\ lspTask' = IF mode' \in {"lsp", "hybrid"} THEN "running" ELSE "off"
    /\ supervisor' = IF mode' = "hybrid" THEN "running" ELSE "off"
    /\ UNCHANGED <<extVars, cli, impl, binds, listener, lock_dir, auth_token, sigTask, proc,
                   exitCode, signal, cleanupResult, connVars, busVars>>

\* The process at the start of main, for every command line clap accepts.
CliInit ==
    /\ cli \in Cli
    /\ worktree = NoPath
    /\ impl = "main"
    /\ mode = "unset"
    /\ wsPc = "off"
    /\ binds = 0
    /\ listener = "unbound"
    /\ auth_token = NoToken
    /\ lock_dir = EmptyDir
    /\ sigTask = "none"
    /\ wsTask = "off"
    /\ lspTask = "off"
    /\ supervisor = "off"
    /\ proc = "running"
    /\ exitCode = "none"
    /\ signal = "none"
    /\ cleanupResult = "none"
    /\ connPc = [c \in Conns |-> "none"]
    /\ hdr = [c \in Conns |-> "absent"]
    /\ connections = {}
    /\ last = NoEvent
    /\ last_pong = [c \in Conns |-> 0]
    /\ connections_to_remove = {}
    /\ NoTraffic
    /\ disk = TRUE
    /\ Loaded
    /\ notification_sender = FALSE
    /\ owed = [c \in Conns |-> FALSE]
    /\ file = BlankFile
    /\ NoRequest

CliNext == Main

CliSpec == CliInit /\ [][CliNext]_vars

\* The runtime polls the spawned shutdown task until it calls exit.
LifeFair ==
    LifeSpec /\ WF_vars(RegisterSignal) /\ WF_vars(ShutdownBegin) /\ WF_vars(ShutdownRemove)

\* ------------------------------------------------------------ properties
NotificationMethods == {"notifications/initialized", "selection_changed", "at_mentioned"}

\* The state right after a text frame that parsed as a JsonRpcRequest.
AfterRequest == last.kind = "text" /\ ParseRequest(last.text)
\* The state right after a text frame that did not parse.
AfterUnparsable == last.kind = "text" /\ ~ParseRequest(last.text)
\* The connection of the last frame is still served: its handler is in its loop.
\* (Its record may have been taken out of the table by the keepalive task.)
StillOpen == connPc[last.conn] = "open"

\* C1, as the specification states it: a connection whose handshake carried no
\* x-claude-code-ide-authorization header, or a wrong one, never gets a record
\* in the connection table and none of its text frames is dispatched.
C1_UnauthorizedRejected ==
    /\ \A c \in connections : hdr[c] = "correct"
    /\ (last.kind = "text" /\ last.conn \in connections) => hdr[last.conn] = "correct"

\* C2, as the specification states it: whenever the lock file exists it has an
\* authToken field, and the field equals the token held in the server state.
C2_LockTokenMatches ==
    lockFile.exists =>
        /\ "authToken" \in lockFile.keys
        /\ auth_token # NoToken
        /\ lockFile.authToken = auth_token

\* C3, as the specification states it: a lock file exists only while the
\* process is running and holds the bound listening socket; there is none
\* before the bind and none is left once the socket is gone.
C3_LockOnlyWhileBound ==
    lockFile.exists => (proc = "running" /\ listener = "bound")

\* C4, as the specification states it: every request that carries an id is
\* answered by exactly one response with that id, whatever its method.
C4_EveryIdAnswered ==
    (AfterRequest /\ last.text.id # NoId) =>
        (Len(last.resp) = 1 /\ last.resp[1].id = last.text.id)

\* C4, amended: a request that carries an id and whose method is not one of
\* notifications/initialized, selection_changed, at_mentioned is answered by
\* exactly one response with that id; those three methods are answered by
\* nothing, id or not.
C4_IdAnsweredUnlessNotification ==
    AfterRequest =>
        /\ (last.text.id # NoId /\ last.text.method \notin NotificationMethods) =>
              (Len(last.resp) = 1 /\ last.resp[1].id = last.text.id)
        /\ last.text.method \in NotificationMethods => last.resp = <<>>

C4_Witness ==
    /\ AfterRequest /\ last.text.id # NoId /\ last.sendOk
    /\ last.text.method = "tools/call"
    /\ Len(last.resp) = 1 /\ last.resp[1].id = last.text.id

\* C5, as the specification states it: a well-formed message without an id is
\* answered by nothing, whatever its method.
C5_NoIdNoResponse ==
    (AfterRequest /\ last.text.id = NoId) => last.resp = <<>>

\* C6, as the specification states it: once the interactive-termination signal
\* has been delivered to the running server, the process eventually exits with
\* code 0 and no lock file is left.
C6_SignalExitsClean ==
    (signal = "delivered") ~> (proc = "exited" /\ exitCode = "0" /\ ~lockFile.exists)

\* C6, amended: once the shutdown task has received the signal the process
\* eventually exits with code 0; and when the shutdown task has run to its
\* exit, the exit code is 0 and the lock file is gone unless removing it failed.
C6_ShutdownTaskExits ==
    /\ (sigTask = "signalled") ~> (proc = "exited" /\ exitCode = "0")
    /\ [](sigTask = "exited" =>
            /\ proc = "exited" /\ exitCode = "0"
            /\ lockFile.exists => cleanupResult = "err")

C6_Witness ==
    /\ signal = "delivered" /\ sigTask = "exited" /\ proc = "exited"
    /\ cleanupResult = "ok" /\ ~lockFile.exists /\ wsPc = "accepting"

\* C7, as the specification states it: a connection that was open when a
\* notification was published eventually has it sent (a connection that goes
\* away is owed nothing any more).
C7_PublishedIsDelivered ==
    \A c \in Conns : owed[c] ~> ~owed[c]

\* C8, as the specification states it: the hybrid supervisor has terminated
\* only when both the WebSocket task and the editor-protocol task completed.
C8_DoneOnlyAfterBoth ==
    supervisor = "done" => (wsTask # "running" /\ lspTask = "done")

\* C8, amended: the hybrid supervisor has terminated only when at least one of
\* the two tasks completed; the other may still be running.
C8_DoneAfterEither ==
    supervisor = "done" => (wsTask # "running" \/ lspTask = "done")

C8_Witness ==
    supervisor = "done" /\ lspTask = "done" /\ wsTask = "running"

\* What C9 says is sent for a request with a method no branch handles.
UnknownMethodAnswer ==
    IF last.text.id # NoId
    THEN last.resp = <<Response(last.text.id, Null, METHOD_NOT_FOUND)>>
    ELSE last.resp = <<>>

\* C9, as the specification states it: a request with an unknown method and an
\* id is answered by one -32601 error with that id, one without id by nothing,
\* and the connection stays open in both cases.
C9_UnknownMethodStaysOpen ==
    (AfterRequest /\ last.text.method \notin RoutedMethods) =>
        (UnknownMethodAnswer /\ StillOpen)

\* C9, amended: a request with an unknown method and an id is answered by one
\* -32601 error with that id, one without id by nothing; the connection stays
\* open unless sending that error fails, and then the handler leaves its loop
\* and removes the record. MCPServer::handle_request builds the same error
\* for a request with an id.
C9_UnknownMethodError ==
    /\ (AfterRequest /\ last.text.method \notin RoutedMethods) =>
          /\ UnknownMethodAnswer
          /\ (last.text.id = NoId \/ last.sendOk) => StillOpen
          /\ (last.text.id # NoId /\ ~last.sendOk) =>
                (connPc[last.conn] = "closed" /\ last.conn \notin connections)
    /\ \A t \in PlainRequests :
          (t.id # NoId /\ t.method \notin MCPMethods) =>
              MCPHandleRequest(t) = <<Response(t.id, Null, METHOD_NOT_FOUND)>>

C9_Witness ==
    /\ AfterRequest /\ last.text.method = "no.such.method" /\ last.text.id # NoId
    /\ last.sendOk /\ StillOpen
    /\ last.resp[1].error = METHOD_NOT_FOUND

\* C10: a text frame that does not parse as a JSON-RPC request is answered by
\* one -32700 error without id; the connection is not closed, its record stays
\* in the table and the next text frame can be handled, also when sending the
\* error fails. The extension's handle_websocket_message answers a text that is
\* no JSON the same way.
C10_ParseErrorKeepsConnection ==
    /\ [](AfterUnparsable =>
            /\ last.resp = <<Response(NoId, Null, PARSE_ERROR)>>
            /\ StillOpen
            /\ ENABLED HandleText(last.conn, TextFrames))
    /\ [][(last'.kind = "text" /\ ~ParseRequest(last'.text)) =>
            (connections' = connections /\ connPc' = connPc)]_vars
    /\ [](\A t \in UnparsableTexts :
            t.shape = "garbage" =>
                handle_websocket_message(t) = <<Response(NoId, Null, PARSE_ERROR)>>)

C10_Witness ==
    /\ AfterUnparsable /\ ~last.sendOk /\ last.text.shape = "garbage"
    /\ StillOpen /\ last.conn \in connections

\* The state right after a tools/call request that names a tool.
AfterToolCall ==
    AfterRequest /\ last.text.method = "tools/call" /\ last.text.name # NoName

\* A response with a result and no error, or with an error and no result.
WellFormed(r) ==
    \/ r.error = NoError /\ r.result # Null
    \/ r.error # NoError /\ r.result = Null

\* C11: a tools/call that names a tool tools/list returns is dispatched to a
\* handler: it is answered by one response that carries either a result or an
\* error, and the error is never tool-not-found; MCPServer's tools/call has an
\* arm for every name its tools/list returns.
C11_ListedToolsDispatch ==
    /\ (AfterToolCall /\ last.text.name \in get_tool_list) =>
          /\ Len(last.resp) = 1
          /\ WellFormed(last.resp[1])
          /\ last.resp[1].error # TOOL_ERROR_NOT_FOUND
    /\ \A t \in ToolCallRequests :
          t.name \in MCPListedTools =>
              /\ MCPHandleRequest(t) # <<>>
              /\ MCPHandleRequest(t)[1].error = NoError

C11_Witness ==
    /\ AfterToolCall /\ last.text.name = "saveDocument" /\ last.text.name \in get_tool_list
    /\ last.resp[1].error = TOOL_ERROR_INVALID_PARAMS /\ StillOpen

\* C12, as the specification states it: the tools/list result of the WebSocket
\* endpoint contains all twelve standard tool names.
C12_ListsStandardTools ==
    (AfterRequest /\ last.text.method = "tools/list" /\ last.resp # <<>>) =>
        (last.resp[1].result = "{tools}" /\ StandardTools \subseteq get_tool_list)

\* C13, as the specification states it: a tools/call response without error has
\* a result of the shape {content, isError}, and a failed tool call has an
\* error and no result.
C13_ResultEnvelope ==
    (AfterRequest /\ last.text.method = "tools/call") =>
        /\ Len(last.resp) = 1
        /\ WellFormed(last.resp[1])
        /\ last.resp[1].error = NoError => last.resp[1].result = "{content,isError}"

\* C19, as the specification states it: a request with an id for initialize,
\* tools/list, prompts/list, prompts/get or logging/setLevel is answered by a
\* result, never by method-not-found.
C19_RoutedToResult ==
    (AfterRequest /\ last.text.id # NoId
       /\ last.text.method \in {"initialize", "tools/list", "prompts/list",
                                "prompts/get", "logging/setLevel"}) =>
        /\ Len(last.resp) = 1
        /\ last.resp[1].error = NoError
        /\ last.resp[1].result # Null

\* C14, as the specification states it: keepalive closes the connection whose
\* record it removes, so a text frame is handled and answered only on a
\* connection whose record is in the table.
C14_RemovedIsClosed ==
    (last.kind = "text" /\ last.resp # <<>> /\ last.sendOk) => last.conn \in connections

\* ---- UTF-16 view of a line, for stating C15 and C16
\* The UTF-16 code units of a line, <<ch, k>> being unit k of character ch.
RECURSIVE Units(_)
Units(line) ==
    IF line = <<>> THEN <<>>
    ELSE [k \in 1..len_utf16(Head(line)) |-> <<Head(line), k>>] \o Units(Tail(line))

\* The UTF-16 length of a string given by its UTF-8 bytes: every first byte of
\* a character counts that character's code units.
RECURSIVE Utf16LenOfBytes(_)
Utf16LenOfBytes(bs) ==
    IF bs = <<>> THEN 0
    ELSE (IF Head(bs)[2] = 1 THEN len_utf16(Head(bs)[1]) ELSE 0) + Utf16LenOfBytes(Tail(bs))

\* The UTF-8 bytes of a sequence of code units; a surrogate without its partner
\* has no encoding and is kept as it is.
RECURSIVE Utf8OfUnits(_)
Utf8OfUnits(us) ==
    IF us = <<>> THEN <<>>
    ELSE IF Head(us)[2] = 1 /\ len_utf16(Head(us)[1]) = 1
    THEN Bytes(<<Head(us)[1]>>) \o Utf8OfUnits(Tail(us))
    ELSE IF Head(us)[2] = 1 /\ Len(us) > 1 /\ us[2] = <<Head(us)[1], 2>>
    THEN Bytes(<<Head(us)[1]>>) \o Utf8OfUnits(Tail(Tail(us)))
    ELSE <<<<"surrogate", Head(us)>>>> \o Utf8OfUnits(Tail(us))

\* p is a character boundary of the line, the end of the line included.
OnBoundary(line, p) == \E i \in 0..Len(line) : Len(Units(SubSeq(line, 1, i))) = p

\* The code units from offset `from` up to offset `to` of a line, an offset past
\* the end of the line standing for the end of the line.
UnitSlice(line, from, to) ==
    LET n == Len(Units(line))
    IN SubSeq(Units(line), (IF from < n THEN from ELSE n) + 1, IF to < n THEN to ELSE n)

\* The substring of the document a range delimits, offsets in UTF-16 code
\* units: one line's slice, or first line from start.character, middle lines in
\* full, last line up to end.character, a newline after every line but the last.
RECURSIVE RangeLines(_, _, _)
RangeLines(lines, range, i) ==
    IF i > range.end.line THEN <<>>
    ELSE (IF ~HasLine(lines, i) THEN <<>>
          ELSE LET line == lines[i + 1]
                   n == Len(Units(line))
               IN Utf8OfUnits(UnitSlice(line,
                                        IF i = range.start.line THEN range.start.character ELSE 0,
                                        IF i = range.end.line THEN range.end.character ELSE n))
                  \o (IF i < range.end.line THEN NewLine ELSE <<>>))
         \o RangeLines(lines, range, i + 1)
Substring(lines, range) == RangeLines(lines, range, range.start.line)

Published == note.method = "selection_changed"

\* The offsets of the range lie on character boundaries of the lines they refer
\* to, and on one line the start is not after the end.
ValidRange(lines, range) ==
    /\ HasLine(lines, range.start.line) =>
          OnBoundary(lines[range.start.line + 1], range.start.character)
    /\ HasLine(lines, range.end.line) =>
          OnBoundary(lines[range.end.line + 1], range.end.character)
    /\ range.start.line = range.end.line => range.start.character <= range.end.character

\* C15, as the specification states it: the text of every selection_changed
\* notification built from a readable file is the substring of the file that
\* the selection range delimits in UTF-16 code units.
C15_TextIsSubstring ==
    (Published /\ note.readOk) => note.text = Substring(file, note.selection)

\* C15, amended: the text is that substring when the file can be read and the
\* range's offsets lie on character boundaries within their lines (start not
\* after end on one line); it is empty when the file cannot be read, and for a
\* one-line range when an offset is past the end of the line or the start is
\* after the end.
C15_TextIsSubstringOfValidRange ==
    Published =>
        /\ ~note.readOk => note.text = <<>>
        /\ (note.readOk /\ ValidRange(file, note.selection)) =>
              note.text = Substring(file, note.selection)
        /\ (note.selection.start.line = note.selection.end.line
              /\ HasLine(file, note.selection.start.line)
              /\ \/ note.selection.start.character > Len(Units(file[note.selection.start.line + 1]))
                 \/ note.selection.end.character > Len(Units(file[note.selection.start.line + 1]))
                 \/ note.selection.start.character > note.selection.end.character) =>
              note.text = <<>>

C15_Witness ==
    /\ Published /\ note.readOk /\ ~note.is_empty
    /\ file = << <<"G", "e">>, <<"G">>, <<"e", "G">> >>
    /\ note.selection = [start |-> [line |-> 0, character |-> 2],
                         end |-> [line |-> 2, character |-> 1]]
    /\ note.text = Bytes(<<"e">>) \o NewLine \o Bytes(<<"G">>) \o NewLine \o Bytes(<<"e">>)

\* C16: for a line and a UTF-16 offset p on a character boundary of the line,
\* char_pos_to_byte_pos gives a byte offset b whose prefix of the line has
\* UTF-16 length p, and a larger offset never gives a smaller byte offset.
C16_ConversionInverts ==
    (Published /\ HasLine(file, note.selection.start.line)) =>
        LET line == file[note.selection.start.line + 1]
            p1 == note.selection.start.character
            p2 == note.selection.end.character
            b1 == char_pos_to_byte_pos(line, p1)
            b2 == char_pos_to_byte_pos(line, p2)
        IN /\ OnBoundary(line, p1) =>
                (b1 # NoPos /\ Utf16LenOfBytes(SubSeq(Bytes(line), 1, b1)) = p1)
           /\ OnBoundary(line, p2) =>
                (b2 # NoPos /\ Utf16LenOfBytes(SubSeq(Bytes(line), 1, b2)) = p2)
           /\ (OnBoundary(line, p1) /\ OnBoundary(line, p2) /\ p1 <= p2) => b1 <= b2

C16_Witness ==
    /\ Published /\ note.readOk
    /\ file[1] = <<"G", "e">>
    /\ note.selection = [start |-> [line |-> 0, character |-> 2],
                         end |-> [line |-> 0, character |-> 3]]
    /\ char_pos_to_byte_pos(file[1], 2) = 4 /\ char_pos_to_byte_pos(file[1], 3) = 6
    /\ note.text = Bytes(<<"e">>)


\* The process has ended after the WebSocket endpoint failed to start (its
\* bind or its lock-file write returned an error).
StartupFailed == proc = "exited" /\ wsPc = "failed"

\* C17: a startup failure of the WebSocket endpoint (bind or lock-file write)
\* is fatal in every mode that starts the endpoint: the process ends with a
\* non-zero exit code, never with a clean exit.
C17_StartupFailureIsFatal == StartupFailed => exitCode = "1"


\* lib.rs LockFileData: the keys of the descriptor as serde names them
LockFileDataKeys == {"pid", "workspaceFolders", "ideName", "transport", "authToken"}
\* Keys a lock file may carry besides the descriptor's own.
ExtraLockKeys == {"port", "timestamp"}

\* C18: every lock file written carries all five descriptor keys (pid,
\* workspaceFolders, ideName, transport, authToken) and, besides them, only
\* port and timestamp.
C18_LockFileHasDescriptorKeys ==
    lockFile.exists =>
        /\ LockFileDataKeys \subseteq lockFile.keys
        /\ lockFile.keys \subseteq LockFileDataKeys \cup ExtraLockKeys


\* The startup has failed because TcpListener::bind returned an error (a failed
\* lock-file write closes a bound listener or precedes every bind).
BindFailed == wsPc = "failed" /\ listener = "unbound" /\ binds > 0

\* C20: when the caller-supplied port is in use, the startup fails only after
\* a second bind, made after the cleanup of a stale lock file, has failed too.
C20_FailsAfterSecondBind == BindFailed => binds = 2

\* C20, as the code has it: a startup calls bind once; that call either binds
\* the listener or fails the startup in the same step, and no lock file is
\* removed on the way.
C20_SingleBindAttempt ==
    [][binds' # binds =>
          /\ binds = 0 /\ binds' = 1
          /\ listener' = "bound" \/ (wsPc' = "failed" /\ wsTask' = "err")
          /\ lockFile' = lockFile]_vars

C20_Witness == BindFailed /\ binds = 1 /\ wsTask = "err"


\* The command line's effective worktree: the top-level --worktree when given,
\* else the subcommand's.
EffectiveWorktree == IF cli.worktree # NoPath THEN cli.worktree ELSE cli.subWorktree

\* C21: with no subcommand main runs hybrid mode when no --worktree is given
\* and lsp mode otherwise; with the lsp or hybrid subcommand the top-level
\* --worktree takes precedence over the subcommand's, which is used only when
\* the top-level one is absent.
C21_ModeSelection ==
    mode # "unset" =>
        /\ cli.sub = "none" => mode = (IF cli.worktree = NoPath THEN "hybrid" ELSE "lsp")
        /\ cli.sub # "none" => mode = cli.sub
        /\ cli.sub \in {"lsp", "hybrid"} => worktree = EffectiveWorktree

C21_Witness ==
    /\ mode = "hybrid" /\ cli.sub = "hybrid"
    /\ cli.worktree = "/a" /\ cli.subWorktree = "/b" /\ worktree = "/a"


\* cleanup_lock_file(port) has run to its end in the shutdown task.
CleanupRan == sigTask = "exited"

\* C22: create_lock_file(port) followed by cleanup_lock_file(port) leaves the
\* lock directory as it was: <port>.lock, absent before, is absent again.
C22_WriteThenRemoveIsNoOp == CleanupRan => ~lockFile.exists

\* C22, as the code has it: after create_lock_file(port) and a
\* cleanup_lock_file(port) that returned Ok, <port>.lock is absent again, and
\* no step of either operation touches the lock file of another port.
C22_WriteThenRemovedIsNoOp ==
    /\ [](cleanupResult = "ok" => ~lockFile.exists)
    /\ [][\A f \in LockFiles \ {lock_file(ServerPort)} : lock_dir'[f] = lock_dir[f]]_vars

C22_Witness ==
    /\ CleanupRan /\ cleanupResult = "ok" /\ wsPc = "accepting"
    /\ ~lockFile.exists /\ lock_dir[lock_file(OtherPort)].exists


\* C23: a binary frame received on an open connection is ignored: nothing is
\* sent, the connection table and the connection's record are unchanged, and
\* the connection stays open, its handler ready for the next frame.
C23_BinaryIgnored ==
    /\ [][(last' # last /\ last'.kind = "binary") =>
             /\ last'.resp = <<>>
             /\ connections' = connections
             /\ last_pong' = last_pong
             /\ connPc' = connPc]_vars
    /\ [](last.kind = "binary" =>
             /\ connPc[last.conn] = "open"
             /\ ENABLED HandleText(last.conn, TextFrames))

C23_Witness == last.kind = "binary" /\ last.conn \in connections /\ last_pong[last.conn] > 0


\* A step of the keepalive task's removal pass.
RemovalPass == connections_to_remove # {} /\ connections_to_remove' = {}

\* C24: the keepalive task removes a record only if, at the moment of removal,
\* the connection's last_pong is more than 60 seconds old; a Pong processed
\* between the scan and the removal pass prevents the removal.
C24_RemovesOnlyDead ==
    [][RemovalPass => \A c \in connections \ connections' : IsDead(last_pong[c])]_vars


\* C25: the connection table mirrors the live connections: an id is in the
\* table exactly when its handshake has completed and its message loop has
\* not exited.
C25_TableMirrorsLive == \A c \in Conns : c \in connections <=> connPc[c] = "open"


\* The handler of connection c leaves its message loop in this step.
HandlerExits(c) == connPc[c] = "open" /\ connPc'[c] = "closed"

RequestHandled == lspReq # NoReq
\* The request has a position whose character is u32::MAX.
HasOverflow == \E i \in DOMAIN lspReq.positions : Overflows(lspReq.positions[i])

\* C27: publishing never blocks and never fails the editor request: a
\* code-action, selection-range or execute-command request of lsp.rs returns
\* its normal result with zero subscribers, with a subscriber that has fallen
\* behind and with no sender; the only request that does not return is the
\* one whose position arithmetic panics.
C27_PublishNeverFails ==
    (impl = "module" /\ RequestHandled) =>
        \/ lspResp = "ok"
        \/ lspResp = "panic" /\ HasOverflow

C27_Witness ==
    /\ impl = "module" /\ notification_sender
    /\ lspReq.kind = "code_action" /\ lspReq.subscribers = "none"
    /\ Len(published) = 1 /\ lspResp = "ok"


\* The selection_changed notifications among the published ones.
SelectionsPublished == SelectSeq(published, LAMBDA n : n.method = "selection_changed")

\* C28: each code-action request publishes exactly one selection_changed for
\* its range, each selection-range request exactly one per requested position,
\* in the order of the positions and before the response is returned; no other
\* editor request publishes selection_changed.
C28_OnePerRequest ==
    RequestHandled =>
        /\ lspReq.kind = "code_action" =>
              /\ Len(SelectionsPublished) = 1
              /\ SelectionsPublished[1].selection = lspReq.range
        /\ lspReq.kind = "selection_range" =>
              /\ Len(SelectionsPublished) = Len(lspReq.positions)
              /\ \A i \in DOMAIN lspReq.positions :
                    SelectionsPublished[i].selection.start = lspReq.positions[i]
        /\ lspReq.kind \notin {"code_action", "selection_range"} =>
              SelectionsPublished = <<>>


\* The editor request is a selection_range handled by lsp.rs.
SelectionRangeHandled == impl = "module" /\ lspReq.kind = "selection_range" /\ RequestHandled

\* The text a selection_range notification should carry for a position, as
\* the specification states it: the character at that UTF-16 position.
CharacterAt(lines, position) ==
    Bytes(<<Units(lines[position.line + 1])[position.character + 1][1]>>)
\* The position is on a character of the document.
OnCharacter(lines, position) ==
    /\ HasLine(lines, position.line)
    /\ position.character < Len(Units(lines[position.line + 1]))

\* C29: for a selection-range request at
\* (line, c) the notification has the range (line, c) to (line, c+1) and its
\* text is the single character of that line at UTF-16 position c.
C29_SingleCharacter ==
    SelectionRangeHandled =>
        \A i \in DOMAIN lspReq.positions :
            LET position == lspReq.positions[i]
            IN /\ i \in DOMAIN published
               /\ published[i].selection =
                     [start |-> position,
                      end |-> [position EXCEPT !.character = position.character + 1]]
               /\ (published[i].readOk /\ OnCharacter(file, position)) =>
                     published[i].text = CharacterAt(file, position)


\* The editor request is an execute_command handled by lsp.rs.
CommandHandled == impl = "module" /\ lspReq.kind = "execute_command" /\ RequestHandled
AtMention == lspReq.command = "claude-code.at-mention"

LinePublished(v) ==
    IF v.t = "int" /\ v.n >= 0 /\ v.n <= U32Max THEN v.n
    ELSE IF v.t = "int" /\ v.n > U32Max THEN v.n - (U32Max + 1)
    ELSE 0

AfterToolsCallRequest == AfterRequest /\ last.text.method = "tools/call"

\* What a tools/call request without a string name is answered with.
InvalidParamsAnswer ==
    (AfterToolsCallRequest /\ last.text.name = NoName) =>
        /\ last.resp = <<Response(last.text.id, Null, INVALID_PARAMS)>>
        /\ last.calls = <<>>

\* What a tools/call request that names a registered tool and carries no
\* arguments invokes.
DefaultArguments ==
    (AfterToolsCallRequest /\ last.text.name \in RegisteredTools /\ ~last.text.hasArgs) =>
        last.calls = <<[handler |-> last.text.name, args |-> {}]>>

\* C31, as the specification states it: a tools/call without a string name is
\* answered with error -32602 carrying the request's id and invokes no handler,
\* a tools/call with a name and no arguments invokes the handler with an empty
\* object, and in both cases the connection stays open.
C31_InvalidParamsStaysOpen ==
    /\ InvalidParamsAnswer
    /\ DefaultArguments
    /\ (AfterToolsCallRequest /\ (last.text.name = NoName \/ ~last.text.hasArgs)) => StillOpen

\* C31, corrected: the same answer and the same invocation; the connection
\* stays open when the response was sent, and the handler leaves its loop and
\* removes its record when sending the response failed.
C31_InvalidParamsAnswered ==
    /\ InvalidParamsAnswer
    /\ DefaultArguments
    /\ (AfterToolsCallRequest /\ (last.text.name = NoName \/ ~last.text.hasArgs)) =>
          /\ last.sendOk => StillOpen
          /\ ~last.sendOk => (~StillOpen /\ last.conn \notin connections)

C31_Witness ==
    /\ AfterToolsCallRequest /\ last.text.name = NoName /\ last.text.id # NoId
    /\ last.resp[1].error = INVALID_PARAMS /\ last.resp[1].id = last.text.id
    /\ last.sendOk /\ StillOpen /\ last.conn \in connections

\* The state right after a tools/call request that names a tool the registry
\* does not hold.
AfterUnknownToolCall ==
    AfterToolsCallRequest /\ last.text.name # NoName /\ last.text.name \notin RegisteredTools

\* The answer to such a request: the registry's not-found error as a JSON-RPC
\* error with the request's id, and no handler invocation.
NotFoundAnswer ==
    /\ last.resp = <<Response(last.text.id, Null, TOOL_ERROR_NOT_FOUND)>>
    /\ last.calls = <<>>

\* C32, as the specification states it: a tools/call for an unregistered name is
\* answered with the not-found error -32601 and the request's id, no handler is
\* invoked, and the connection (its handler and its record) is unchanged.
C32_UnknownToolChangesNothing ==
    [][(last' # last /\ AfterUnknownToolCall') =>
          /\ NotFoundAnswer'
          /\ connPc' = connPc /\ connections' = connections]_vars

\* C32, corrected: the same answer; the connection is unchanged when the
\* response was sent, and the handler leaves its loop and removes its record
\* when sending the response failed.
C32_UnknownToolNotFound ==
    [][(last' # last /\ AfterUnknownToolCall') =>
          /\ NotFoundAnswer'
          /\ last'.sendOk => (connPc' = connPc /\ connections' = connections)
          /\ ~last'.sendOk =>
                /\ connPc' = [connPc EXCEPT ![last'.conn] = "closed"]
                /\ connections' = connections \ {last'.conn}]_vars

C32_Witness ==
    /\ AfterUnknownToolCall /\ last.text.name = "openDiff" /\ last.text.id # NoId
    /\ last.resp[1].error = TOOL_ERROR_NOT_FOUND /\ last.resp[1].id = last.text.id
    /\ last.sendOk /\ StillOpen /\ last.conn \in connections

\* The state right after a request with one of the three notification methods.
AfterNotification == AfterRequest /\ last.text.method \in NotificationMethods

\* C33: a selection_changed, at_mentioned or notifications/initialized message
\* from the peer, with or without an id, is answered by no frame and leaves the
\* connection's handler and record as they were.
C33_NotificationsUnanswered ==
    [][(last' # last /\ AfterNotification') =>
          /\ last'.resp = <<>> /\ last'.calls = <<>>
          /\ connPc' = connPc /\ connections' = connections]_vars

C33_Witness ==
    /\ AfterNotification /\ last.text.method = "at_mentioned" /\ last.text.id # NoId
    /\ last.resp = <<>> /\ StillOpen /\ last.conn \in connections

\* cleanup_lock_file has returned and <port>.lock is not there.
CleanedAndMissing == CleanupRan /\ ~lockFile.exists

\* C34, as the specification states it: cleanup_lock_file(port) returns success
\* whenever it leaves no <port>.lock behind, be it that the file was missing
\* when it looked, that it removed the file, or that the file disappeared
\* between its existence check and its removal.
C34_CleanupIdempotent == CleanedAndMissing => cleanupResult = "ok"

\* The responses sent on connection c answer frames of increasing position in
\* the order the peer sent them, each with the id of the frame it answers.
InOrder(c) ==
    /\ \A i, j \in DOMAIN outbox[c] : i < j => outbox[c][i].seq < outbox[c][j].seq
    /\ \A i \in DOMAIN outbox[c] :
          /\ outbox[c][i].seq \in 1..reads[c]
          /\ outbox[c][i].resp.id = inbox[c][outbox[c][i].seq].id

\* C35: within one connection the responses go out in the order in which their
\* requests came in, and a frame is read only when the response to the frame
\* before it has been sent: a response that is built and unsent is the one to
\* the frame read last, and the handler is sending it.
C35_ResponsesInRequestOrder ==
    \A c \in Conns :
        /\ InOrder(c)
        /\ response[c] # <<>> =>
              /\ connPc[c] = "sending"
              /\ \A i \in DOMAIN outbox[c] : outbox[c][i].seq < reads[c]

C35_Witness ==
    /\ Len(inbox[1]) = 3 /\ reads[1] = 3 /\ Len(outbox[1]) = 2
    /\ inbox[1][2].method = "notifications/initialized"
    /\ outbox[1][1].seq = 1 /\ outbox[1][2].seq = 3
    /\ outbox[1][1].resp.id = 2 /\ outbox[1][2].resp.id = 1

\* The removal pass of the keepalive task.
KeepaliveRemoves == connections_to_remove # {} /\ connections_to_remove' = {}

\* C36, as the specification states it: the record of a connection whose peer
\* sends a Ping or a text frame between any two keepalive ticks is never taken
\* out of the table by the keepalive task.
C36_ActivePeerIsKept ==
    [][KeepaliveRemoves => connections' = connections]_vars

\* C37, as the specification states it: in every selection_changed notification
\* the editor endpoint publishes, isEmpty is true exactly when the selection's
\* start equals its end.
C37_IsEmptyIffStartIsEnd ==
    \A i \in DOMAIN published :
        published[i].method = "selection_changed" =>
            (published[i].is_empty <=> published[i].selection.start = published[i].selection.end)

\* The handler of connection c reads a frame in this step; the frame it reads.
Reads(c) == reads'[c] = reads[c] + 1
FrameRead(c) == inbox[c][reads[c] + 1]

\* What a frame is answered with when it is the first one of the session, the
\* tool handlers finding the files as the session found them.
FreshAnswers(text) == {Answer(text, fsOk) : fsOk \in FsOutcomes(text, FALSE)}
\* What a frame is answered with, the tool handlers finding the files as they
\* are now.
Answers(text) == {Answer(text, fsOk) : fsOk \in FsOutcomes(text, disk)}

IsCharBoundary(line, b) ==
    /\ b \in 0..Len(Bytes(line))
    /\ b < Len(Bytes(line)) => Bytes(line)[b + 1][2] = 1

\* What char_pos_to_byte_pos gives for the target p on the line: nothing
\* exactly when p is beyond the line's UTF-16 length, else a character boundary
\* at most the line's byte length, the first byte of the character when p lies
\* inside a two-unit character.
ConvertsToBoundary(line, p) ==
    LET b == char_pos_to_byte_pos(line, p)
    IN /\ b = NoPos <=> p > Len(Units(line))
       /\ b # NoPos =>
             /\ IsCharBoundary(line, b)
             /\ ~OnBoundary(line, p) =>
                   /\ Bytes(line)[b + 1][1] = Units(line)[p][1]
                   /\ Utf16LenOfBytes(SubSeq(Bytes(line), 1, b)) = p - 1

\* A string made of whole characters: every first byte of a character is
\* followed by the character's other bytes.
RECURSIVE WholeChars(_)
WholeChars(bs) ==
    IF bs = <<>> THEN TRUE
    ELSE LET n == IF Head(bs)[1] = "\n" THEN 1 ELSE len_utf8(Head(bs)[1])
         IN /\ Len(bs) >= n
            /\ \A k \in 1..n : bs[k] = <<Head(bs)[1], k>>
            /\ WholeChars(SubSeq(bs, n + 1, Len(bs)))

\* C39: for the lines and the targets of every selection read,
\* char_pos_to_byte_pos returns nothing or a UTF-8 character boundary within
\* the line, so the text read_text_from_range returns is made of whole
\* characters; and for a range on one line whose start or end is beyond the line
\* or whose start is after its end the text is empty.
C39_SlicesOnBoundaries ==
    Published =>
        LET s == note.selection
        IN /\ HasLine(file, s.start.line) => ConvertsToBoundary(file[s.start.line + 1], s.start.character)
           /\ HasLine(file, s.end.line) => ConvertsToBoundary(file[s.end.line + 1], s.end.character)
           /\ WholeChars(note.text)
           /\ (s.start.line = s.end.line /\ HasLine(file, s.start.line)
                 /\ \/ s.start.character > Len(Units(file[s.start.line + 1]))
                    \/ s.end.character > Len(Units(file[s.start.line + 1]))
                    \/ s.start.character > s.end.character) =>
                 note.text = <<>>

C39_Witness ==
    /\ Published /\ note.readOk
    /\ file[1] = <<"e", "G">>
    /\ note.selection = [start |-> [line |-> 0, character |-> 2],
                         end |-> [line |-> 0, character |-> 3]]
    /\ ~OnBoundary(file[1], 2)
    /\ char_pos_to_byte_pos(file[1], 2) = 2 /\ char_pos_to_byte_pos(file[1], 4) = NoPos
    /\ note.text = Bytes(<<"G">>)

\* ---------------------------------------------------------------- C40
\* b - a on u32 when it is below 2^16, and 2^16 otherwise: the number of calls
\* from the one that read a to the one that read b.
calls_between(a, b) ==
    LET lo == Half + b.lo - a.lo
        hi == (2 * Half + b.hi - a.hi - (IF lo < Half THEN 1 ELSE 0)) % Half
    IN IF hi = 0 THEN lo % Half ELSE Half

\* The i-th call followed returned a port from a product that fitted in 32 bits.
Fits(i) == ~issued[i].overflow

\* C40: every call of generate_unique_port whose product counter * 7919 does
\* not overflow returns a port in 10000..65535, which fits in 16 bits, and two
\* such calls among 55536 consecutive calls return different ports.
C40_PortsInRangeAndDistinct ==
    /\ \A i \in 1..Len(issued) :
           Fits(i) => /\ ~issued[i].panicked
                      /\ issued[i].port \in PortBase..(Half - 1)
    /\ \A i, j \in 1..Len(issued) :
           (i < j /\ Fits(i) /\ Fits(j)
                  /\ calls_between(issued[i].counter, issued[j].counter) < PortSpan)
               => issued[i].port # issued[j].port

\* Two calls whose products fit, the second 55535 calls after the first, the
\* counter having carried from its low half into its high half in between.
C40_Witness ==
    /\ Len(issued) >= 2
    /\ Fits(1) /\ Fits(2)
    /\ calls_between(issued[1].counter, issued[2].counter) = PortSpan - 1
    /\ issued[1].counter.hi < issued[2].counter.hi
    /\ issued[2].port \in PortBase..(Half - 1)
    /\ issued[1].port # issued[2].port

====
